---- MODULE Spec2Model ----
(***************************************************************************)
(* Last Sentinel: the signal interception engine.                          *)
(*                                                                         *)
(*   server/lib/scraper.js   validateUrl, scrape, checkForSignal,           *)
(*                           extractRelevantContent                         *)
(*   server/lib/insforge.js  targets, signals, ai (sanitizeInput,           *)
(*                           sanitizeKeywords, analyzeSignal)               *)
(*   server/lib/signal.js    startMonitoring, stopMonitoring, forceScan     *)
(*   server/routes/targets.js  POST /api/targets, PUT /api/targets/:id      *)
(*                                                                         *)
(* A JavaScript string is a sequence of one-character strings; a character *)
(* that TLA+ cannot write in a literal is named by its code point          *)
(* ("U0000", "U0060" for the backtick, "U4E2D" for a CJK ideograph).       *)
(***************************************************************************)
EXTENDS Integers, Sequences, FiniteSets, TLC

VARIABLES
  activeSessions,  \* signal.js: Map userId -> session object (by reference)
  sessions,        \* the session objects ever created: id -> fields
  timers,          \* the interval timers that are set and not cleared
  calls,           \* the startMonitoring / stopMonitoring calls, in call order
  procs,           \* the interval callbacks and forceScan runs, in start order
  store,           \* watch_targets rows: target id -> row
  signalsTable,    \* signals rows, in insertion order
  fetched,         \* the hrefs a network request was issued for
  started,         \* the target scans begun, in order: <<run, index of the target>>
  budget,          \* the operations the environment may still invoke
  connections,     \* stream routes: Map userId -> the connection's cleanup object
  cleanups,        \* the cleanup objects of the connections ever opened
  requests,        \* the stream requests handled, in order
  posts,           \* POST /api/targets requests between their count and their insert
  fname,           \* pure-function harness: the function or step applied
  arg,             \* pure-function harness: its input
  ret              \* pure-function harness: its result

vars == <<activeSessions, sessions, timers, calls, procs, store, signalsTable,
          fetched, started, budget, connections, cleanups, requests, posts, fname, arg, ret>>

schedVars == <<activeSessions, sessions, timers, calls, procs, store,
               signalsTable, fetched, started, budget, connections, cleanups, requests, posts>>

pureVars == <<fname, arg, ret>>

streamVars == <<connections, cleanups, requests>>

apiVars == <<posts>>

schedVarsButPosts ==
  <<activeSessions, sessions, timers, calls, procs, store, signalsTable, fetched,
    started, budget, connections, cleanups, requests>>

(***************************************************************************)
(* Characters and strings                                                  *)
(***************************************************************************)

Rep(c, n) == [i \in 1..n |-> c]

UpperAlpha == <<"A","B","C","D","E","F","G","H","I","J","K","L","M",
                "N","O","P","Q","R","S","T","U","V","W","X","Y","Z">>

LowerAlpha == <<"a","b","c","d","e","f","g","h","i","j","k","l","m",
                "n","o","p","q","r","s","t","u","v","w","x","y","z">>

Digits == <<"0","1","2","3","4","5","6","7","8","9">>

Range(s) == {s[i] : i \in 1..Len(s)}

IsUpper(c) == c \in Range(UpperAlpha)

IsLower(c) == c \in Range(LowerAlpha)

IsDigit(c) == c \in Range(Digits)

\* String.prototype.toLowerCase, one character
LowerChar(c) ==
  IF IsUpper(c) THEN LowerAlpha[CHOOSE i \in 1..26 : UpperAlpha[i] = c] ELSE c

\* U+0130, the capital I with a dot above: the one character whose lower case
\* is two characters long (i followed by the combining dot U+0307)
DottedI == "U0130"

LowerOf(c) == IF c = DottedI THEN <<"i", "U0307">> ELSE <<LowerChar(c)>>

RECURSIVE lowerFrom(_)
lowerFrom(s) ==
  IF Len(s) = 0 THEN <<>>
  ELSE IF Len(s) = 1 THEN LowerOf(s[1])
  ELSE lowerFrom(SubSeq(s, 1, Len(s) \div 2)) \o
       lowerFrom(SubSeq(s, (Len(s) \div 2) + 1, Len(s)))

\* String.prototype.toLowerCase
toLowerCase(s) ==
  IF \A i \in 1..Len(s) : s[i] # DottedI THEN [i \in 1..Len(s) |-> LowerChar(s[i])]
  ELSE lowerFrom(s)

\* /[\x00-\x1F\x7F]/ : the control characters (tab and line feed among them)
IsControl(c) == c \in {"U0000", "U0009", "U000A", "U001B", "U007F"}

\* /\s/ and the characters String.prototype.trim strips
IsSpace(c) == c \in {" ", "U0009", "U000A", "U00A0"}

\* /\w/
IsWord(c) == IsUpper(c) \/ IsLower(c) \/ IsDigit(c) \/ c = "_"

\* /[\u4e00-\u9fa5]/
IsCJK(c) == c \in {"U4E2D", "U6587", "U7121", "U6709", "U6548", "U95DC", "U9375", "U5B57"}

BackTick == "U0060"

\* String.prototype.substring(0, n)
substring0(s, n) == SubSeq(s, 1, IF Len(s) < n THEN Len(s) ELSE n)

\* String.prototype.trim
trim(s) ==
  LET keep == {i \in 1..Len(s) : ~IsSpace(s[i])}
  IN IF keep = {} THEN <<>>
     ELSE SubSeq(s, CHOOSE i \in keep : \A j \in keep : i <= j,
                    CHOOSE i \in keep : \A j \in keep : i >= j)

\* String.prototype.includes
includes(s, t) ==
  \E i \in 0..(Len(s) - Len(t)) : \A j \in 1..Len(t) : s[i + j] = t[j]

(***************************************************************************)
(* JavaScript values: a type tag and, for strings and arrays, the content  *)
(***************************************************************************)

JsString(s) == [t |-> "string", v |-> s]

JsArray(a) == [t |-> "array", v |-> a]

JsUndefined == [t |-> "undefined", v |-> <<>>]

JsNull == [t |-> "null", v |-> <<>>]

JsNumber == [t |-> "number", v |-> <<>>]     \* a non-zero number

\* ToBoolean, as ||, ! and if apply it
Truthy(x) ==
  CASE x.t = "string" -> x.v # <<>>
    [] x.t \in {"undefined", "null"} -> FALSE
    [] OTHER -> TRUE

(***************************************************************************)
(* scraper.js: validateUrl                                                 *)
(***************************************************************************)

S_localhost == <<"l", "o", "c", "a", "l", "h", "o", "s", "t">>
S_127_0_0_1 == <<"1", "2", "7", ".", "0", ".", "0", ".", "1">>
S_0_0_0_0 == <<"0", ".", "0", ".", "0", ".", "0">>
S_v6loop == <<":", ":", "1">>
S_v6loopBr == <<"[", ":", ":", "1", "]">>
S_metaGoogle == <<"m", "e", "t", "a", "d", "a", "t", "a", ".", "g", "o", "o", "g", "l", "e", ".", "i", "n", "t", "e", "r", "n", "a", "l">>
S_metaGke == <<"m", "e", "t", "a", "d", "a", "t", "a", ".", "g", "k", "e", ".", "i", "n", "t", "e", "r", "n", "a", "l">>
S_kube == <<"k", "u", "b", "e", "r", "n", "e", "t", "e", "s", ".", "d", "e", "f", "a", "u", "l", "t", ".", "s", "v", "c">>
S_example == <<"e", "x", "a", "m", "p", "l", "e", ".", "c", "o", "m">>
S_http == <<"h", "t", "t", "p", ":">>
S_https == <<"h", "t", "t", "p", "s", ":">>
S_ftp == <<"f", "t", "p", ":">>

\* The decimal digits of an octet, as the URL parser serializes an IPv4 host
DecDigits(n) ==
  IF n < 10 THEN <<Digits[n + 1]>>
  ELSE IF n < 100 THEN <<Digits[(n \div 10) + 1], Digits[(n % 10) + 1]>>
  ELSE <<Digits[(n \div 100) + 1], Digits[((n \div 10) % 10) + 1], Digits[(n % 10) + 1]>>

Dotted(o) ==
  DecDigits(o[1]) \o <<".">> \o DecDigits(o[2]) \o <<".">> \o
  DecDigits(o[3]) \o <<".">> \o DecDigits(o[4])

\* A host as the URL parser holds it: an IPv4 address (four octets) or a name
Ipv4Host(a, b, c, d) == [kind |-> "ipv4", o |-> <<a, b, c, d>>, n |-> <<>>]

NameHost(n) == [kind |-> "name", o |-> <<>>, n |-> n]

\* url.hostname
UrlHostname(h) == IF h.kind = "ipv4" THEN Dotted(h.o) ELSE h.n

\* A string given to new URL(): one that does not parse, or its parsed parts
Unparsable == [parses |-> FALSE, protocol |-> <<>>, host |-> NameHost(<<>>), path |-> <<>>]

Url(protocol, host, path) ==
  [parses |-> TRUE, protocol |-> protocol, host |-> host, path |-> path]

\* url.href
Href(u) == u.protocol \o <<"/", "/">> \o toLowerCase(UrlHostname(u.host)) \o u.path

\* Number(group) for a group of decimal digits
DigitVal(c) == (CHOOSE i \in 1..10 : Digits[i] = c) - 1

RECURSIVE Number(_)
Number(g) ==
  IF g = <<>> THEN 0 ELSE 10 * Number(SubSeq(g, 1, Len(g) - 1)) + DigitVal(g[Len(g)])

\* The groups between the three dots d1 < d2 < d3 of s, when each is one to
\* three decimal digits
ipRegexGroups(s, d1, d2, d3) ==
  IF /\ d1 - 1 \in 1..3 /\ d2 - d1 - 1 \in 1..3
     /\ d3 - d2 - 1 \in 1..3 /\ Len(s) - d3 \in 1..3
     /\ \A i \in 1..Len(s) : i \in {d1, d2, d3} \/ IsDigit(s[i])
  THEN <<SubSeq(s, 1, d1 - 1), SubSeq(s, d1 + 1, d2 - 1),
         SubSeq(s, d2 + 1, d3 - 1), SubSeq(s, d3 + 1, Len(s))>>
  ELSE <<>>

ipRegexDots(s, dots) ==
  IF Cardinality(dots) # 3 THEN <<>>
  ELSE ipRegexGroups(s, CHOOSE i \in dots : \A j \in dots : i <= j,
                        CHOOSE i \in dots : \E j, k \in dots : j < i /\ i < k,
                        CHOOSE i \in dots : \A j \in dots : i >= j)

\* hostname.match(/^(\d{1,3})\.(\d{1,3})\.(\d{1,3})\.(\d{1,3})$/): the four
\* groups, or <<>> for null
ipRegexMatch(s) == ipRegexDots(s, {i \in 1..Len(s) : s[i] = "."})

Throw(msg) == [ok |-> FALSE, href |-> <<>>, error |-> msg]

Return(href) == [ok |-> TRUE, href |-> href, error |-> ""]

localhostPatterns == {S_localhost, S_127_0_0_1, S_0_0_0_0, S_v6loop, S_v6loopBr}

blockedHosts == {S_metaGoogle, S_metaGke, S_kube}

\* The range tests with the upper bound of 172.16-31 taken as exclusive
ipRangeErrorOffByOne(a, b) ==
  IF a = 10 THEN "Access to private IP range (10.x.x.x) is not allowed"
  ELSE IF a = 172 /\ b >= 16 /\ b < 31
    THEN "Access to private IP range (172.16-31.x.x) is not allowed"
  ELSE IF a = 192 /\ b = 168
    THEN "Access to private IP range (192.168.x.x) is not allowed"
  ELSE IF a = 169 /\ b = 254
    THEN "Access to link-local/metadata IP is not allowed"
  ELSE IF a = 127 THEN "Access to loopback IP is not allowed"
  ELSE ""

\* The private-range tests on the first two octets
ipRangeError(a, b) ==
  IF a = 10 THEN "Access to private IP range (10.x.x.x) is not allowed"
  ELSE IF a = 172 /\ b >= 16 /\ b <= 31
    THEN "Access to private IP range (172.16-31.x.x) is not allowed"
  ELSE IF a = 192 /\ b = 168
    THEN "Access to private IP range (192.168.x.x) is not allowed"
  ELSE IF a = 169 /\ b = 254
    THEN "Access to link-local/metadata IP is not allowed"
  ELSE IF a = 127 THEN "Access to loopback IP is not allowed"
  ELSE ""

\* const [, a, b] = match.map(Number), then the range tests
matchError(match) ==
  IF match = <<>> THEN "" ELSE ipRangeError(Number(match[1]), Number(match[2]))

\* The checks on the hostname with the range tests made before the localhost
\* patterns
validateHostnameRangesFirst(urlString, hostname, rangeErr) ==
  IF rangeErr # "" THEN Throw(rangeErr)
  ELSE IF hostname \in localhostPatterns THEN Throw("Access to localhost is not allowed")
  ELSE IF hostname \in blockedHosts
    THEN Throw("Access to cloud metadata endpoints is not allowed")
  ELSE Return(Href(urlString))

\* The checks on the lower-cased hostname, in the code's order
validateHostname(urlString, hostname, rangeErr) ==
  IF hostname \in localhostPatterns THEN Throw("Access to localhost is not allowed")
  ELSE IF rangeErr # "" THEN Throw(rangeErr)
  ELSE IF hostname \in blockedHosts
    THEN Throw("Access to cloud metadata endpoints is not allowed")
  ELSE Return(Href(urlString))

validateHost(urlString, hostname) ==
  validateHostname(urlString, hostname, matchError(ipRegexMatch(hostname)))

validateUrl(urlString) ==
  IF ~urlString.parses THEN Throw("Invalid URL format")
  ELSE IF urlString.protocol \notin {S_http, S_https}
    THEN Throw("Only HTTP/HTTPS protocols allowed")
  ELSE validateHost(urlString, toLowerCase(UrlHostname(urlString.host)))

(***************************************************************************)
(* insforge.js: ai.sanitizeInput, ai.sanitizeKeywords, ai.analyzeSignal    *)
(***************************************************************************)

S_LOW == <<"L", "O", "W">>
S_MEDIUM == <<"M", "E", "D", "I", "U", "M">>
S_HIGH == <<"H", "I", "G", "H">>
S_CRITICAL == <<"C", "R", "I", "T", "I", "C", "A", "L">>
S_UNKNOWN == <<"U", "N", "K", "N", "O", "W", "N">>
S_ERROR == <<"E", "R", "R", "O", "R">>
S_noKeywords == <<"U7121", "U6709", "U6548", "U95DC", "U9375", "U5B57">>
S_analysisFailed == <<"U8A0A", "U865F", "U5206", "U6790", "U5931", "U6557">>
S_abnormal == <<"U5206", "U6790", "U7D50", "U679C", "U7570", "U5E38">>
S_offline == <<"U5206", "U6790", "U7CFB", "U7D71", "U96E2", "U7DDA">>

\* The lines of userPrompt around ${sanitizedContent}
S_beginContent == <<"-", "-", "-", "B", "E", "G", "I", "N", " ", "C", "O", "N", "T", "E", "N", "T", "-", "-", "-">>

S_endContent == <<"-", "-", "-", "E", "N", "D", " ", "C", "O", "N", "T", "E", "N", "T", "-", "-", "-">>

SANITIZE_MAX_LENGTH == 2000

KEYWORD_LENGTH_LIMIT == 50

SUMMARY_MAX_LENGTH == 100

\* .replace(/[\x00-\x1F\x7F]/g, '')
removeControl(s) == SelectSeq(s, LAMBDA c : ~IsControl(c))

\* The backticks that directly precede position i + 1 / start at position i
RECURSIVE ticksBefore(_, _)
ticksBefore(s, i) == IF i = 0 \/ s[i] # BackTick THEN 0 ELSE 1 + ticksBefore(s, i - 1)

RECURSIVE ticksFrom(_, _)
ticksFrom(s, i) == IF i > Len(s) \/ s[i] # BackTick THEN 0 ELSE 1 + ticksFrom(s, i + 1)

\* .replace(/```/g, '---'): the global replace scans left to right without
\* overlap, so it turns each maximal run of backticks into dashes three at a
\* time from the run's start and leaves the run's last 0, 1 or 2 backticks
replaceFences(s) ==
  [i \in 1..Len(s) |->
     IF s[i] # BackTick THEN s[i]
     ELSE LET p == ticksBefore(s, i - 1)
              run == p + ticksFrom(s, i)
          IN IF p < 3 * (run \div 3) THEN "-" ELSE BackTick]

sanitizeInputFencesFirst(text) ==
  IF text.t # "string" THEN <<>>
  ELSE substring0(removeControl(replaceFences(text.v)), SANITIZE_MAX_LENGTH)

sanitizeInput(text) ==
  IF text.t # "string" THEN <<>>
  ELSE substring0(replaceFences(removeControl(text.v)), SANITIZE_MAX_LENGTH)

\* k.replace(/[^\w\s\u4e00-\u9fa5-]/g, '').trim()
cleanKeyword(k) ==
  trim(SelectSeq(k, LAMBDA c : IsWord(c) \/ IsSpace(c) \/ IsCJK(c) \/ c = "-"))

sanitizeKeywords(keywords) ==
  IF keywords.t # "array" THEN <<>>
  ELSE LET strings == SelectSeq(keywords.v, LAMBDA k : k.t = "string")
           cleaned == [i \in 1..Len(strings) |-> cleanKeyword(strings[i].v)]
       IN SelectSeq(cleaned, LAMBDA k : Len(k) > 0 /\ Len(k) < KEYWORD_LENGTH_LIMIT)

Analysis(summary, threat, category) ==
  [summary |-> summary, threat_level |-> threat, category |-> category]

validThreatLevels == {S_LOW, S_MEDIUM, S_HIGH, S_CRITICAL}

\* validThreatLevels.includes(x): strict equality against four strings
isValidThreatLevel(x) == x.t = "string" /\ x.v \in validThreatLevels

validateResultNoEnumCheck(result) ==
  Analysis(
    IF ~Truthy(result.summary) \/ result.summary.t # "string" THEN JsString(S_abnormal)
    ELSE IF Len(result.summary.v) > SUMMARY_MAX_LENGTH
      THEN JsString(substring0(result.summary.v, SUMMARY_MAX_LENGTH))
    ELSE result.summary,
    result.threat_level,
    IF ~Truthy(result.category) \/ result.category.t # "string" THEN JsString(S_UNKNOWN)
    ELSE result.category)

\* "Validate output structure": the three checks on the parsed object
validateResult(result) ==
  Analysis(
    IF ~Truthy(result.summary) \/ result.summary.t # "string" THEN JsString(S_abnormal)
    ELSE IF Len(result.summary.v) > SUMMARY_MAX_LENGTH
      THEN JsString(substring0(result.summary.v, SUMMARY_MAX_LENGTH))
    ELSE result.summary,
    IF ~isValidThreatLevel(result.threat_level) THEN JsString(S_UNKNOWN)
    ELSE result.threat_level,
    IF ~Truthy(result.category) \/ result.category.t # "string" THEN JsString(S_UNKNOWN)
    ELSE result.category)

(* The summarizer's reply, by what the code's parsing makes of it:           *)
(*   "reject"   the API call rejects, or the completion has no text: an      *)
(*              exception inside the try block                               *)
(*   "nomatch"  response.match(/\{[\s\S]*?\}/) is null                       *)
(*   "badjson"  JSON.parse(jsonMatch[0]) throws                              *)
(*   "object"   JSON.parse returns an object with these three properties     *)
(*              (JsUndefined: missing)                                       *)
Reply(kind, obj) == [kind |-> kind, obj |-> obj]

NoObject == Analysis(JsUndefined, JsUndefined, JsUndefined)

\* What analyzeSignal returns once the summarizer has replied
replyResult(reply) ==
  CASE reply.kind = "nomatch" ->
         Analysis(JsString(S_analysisFailed), JsString(S_MEDIUM), JsString(S_UNKNOWN))
    [] reply.kind = "object" -> validateResult(reply.obj)
    [] OTHER -> Analysis(JsString(S_offline), JsString(S_UNKNOWN), JsString(S_ERROR))

\* What analyzeSignal returns without calling the summarizer
noKeywordResult == Analysis(JsString(S_noKeywords), JsString(S_UNKNOWN), JsString(S_ERROR))

analyzeSignal(content, keywords, reply) ==
  IF sanitizeKeywords(keywords) = <<>> THEN noKeywordResult ELSE replyResult(reply)

(***************************************************************************)
(* scraper.js: scrape, checkForSignal, extractRelevantContent              *)
(***************************************************************************)

MAX_CONTENT_LENGTH == 500000

MAX_TEXT_LENGTH == 50000

CONTEXT_RADIUS == 200

MAX_OCCURRENCES == 3

MAX_EXCERPT_LENGTH == 3000

Null == <<>>

\* .replace(/\s+/g, ' '): each maximal run of whitespace becomes one space
collapseWhitespace(s) ==
  LET idx == [i \in 1..Len(s) |-> i]
      kept == SelectSeq(idx, LAMBDA i : ~IsSpace(s[i]) \/ i = 1 \/ ~IsSpace(s[i - 1]))
  IN [k \in 1..Len(kept) |-> IF IsSpace(s[kept[k]]) THEN " " ELSE s[kept[k]]]

\* crypto.createHash('sha256').update(text).digest('hex'): a digest that
\* differs whenever the text differs (collisions are not modelled)
sha256(text) == <<"sha256:">> \o text

(* What the network returns for a request:                                 *)
(*   "reject"    fetch rejects (the 15 s AbortSignal.timeout, a network     *)
(*               error)                                                     *)
(*   "response"  a response with a status, a content-length header (-1:     *)
(*               absent) and a body, given by the text cheerio extracts     *)
(*               from it once the unwanted elements are removed             *)
(*   "redirect"  a 3xx answer with a Location header: fetch is called       *)
(*               without a redirect option, so it requests the location     *)
(*               itself, and the other fields are the response it ends with *)
Response(kind, status, contentLength, bodyText, location) ==
  [kind |-> kind, status |-> status, contentLength |-> contentLength,
   bodyText |-> bodyText, location |-> location]

\* The addresses fetch(validatedUrl, ...) sends a request to
requestsOf(href, resp) ==
  IF resp.kind = "redirect" THEN {href, resp.location} ELSE {href}

\* scrape throws before "await response.text()": the body was not read
ScrapeThrow(requested, msg) ==
  [ok |-> FALSE, requested |-> requested, error |-> msg, text |-> <<>>, hash |-> Null,
   bodyRead |-> FALSE]

ScrapeReturn(requested, text) ==
  [ok |-> TRUE, requested |-> requested, error |-> "", text |-> text, hash |-> sha256(text),
   bodyRead |-> TRUE]

\* scrape with the content-length test made once the body has been read
scrapeValidatedLengthAfterRead(v, resp) ==
  IF ~v.ok THEN ScrapeThrow({}, v.error)
  ELSE IF resp.kind = "reject"
    THEN ScrapeThrow({v.href}, "The operation was aborted due to timeout")
  ELSE IF ~(resp.status >= 200 /\ resp.status <= 299)
    THEN ScrapeThrow(requestsOf(v.href, resp), "HTTP error status")
  ELSE IF resp.contentLength > MAX_CONTENT_LENGTH
    THEN [ScrapeThrow(requestsOf(v.href, resp), "Content too large") EXCEPT !.bodyRead = TRUE]
  ELSE ScrapeReturn(requestsOf(v.href, resp),
         substring0(trim(collapseWhitespace(resp.bodyText)), MAX_TEXT_LENGTH))

\* scrape after the guard: the request, then the checks on the response
scrapeValidated(v, resp) ==
  IF ~v.ok THEN ScrapeThrow({}, v.error)
  ELSE IF resp.kind = "reject"
    THEN ScrapeThrow({v.href}, "The operation was aborted due to timeout")
  ELSE IF ~(resp.status >= 200 /\ resp.status <= 299)
    THEN ScrapeThrow(requestsOf(v.href, resp), "HTTP error status")
  ELSE IF resp.contentLength > MAX_CONTENT_LENGTH
    THEN ScrapeThrow(requestsOf(v.href, resp), "Content too large")
  ELSE ScrapeReturn(requestsOf(v.href, resp),
         substring0(trim(collapseWhitespace(resp.bodyText)), MAX_TEXT_LENGTH))

\* scrape(url): the guard runs first
scrape(url, resp) == scrapeValidated(validateUrl(url), resp)

\* String.prototype.indexOf(t, from), 0-based; -1 when absent
indexOf(s, t, from) ==
  IF t = <<>> THEN (IF from < Len(s) THEN from ELSE Len(s))
  ELSE LET at == {i \in from..(Len(s) - Len(t)) : \A j \in 1..Len(t) : s[i + j] = t[j]}
       IN IF at = {} THEN -1 ELSE CHOOSE i \in at : \A k \in at : i <= k

Max(a, b) == IF a > b THEN a ELSE b

Min(a, b) == IF a < b THEN a ELSE b

Ellipsis == <<".", ".", ".">>

\* The excerpt with the ellipsis put on the side where the window was cut
\* short by the start or the end of the text
excerptAtEllipsisWhenClipped(text, keyword, index) ==
  LET start == Max(0, index - CONTEXT_RADIUS)
      end == Min(Len(text), index + Len(keyword) + CONTEXT_RADIUS)
      body == trim(SubSeq(text, start + 1, end))
  IN (IF index - CONTEXT_RADIUS < 0 THEN Ellipsis ELSE <<>>) \o body \o
     (IF index + Len(keyword) + CONTEXT_RADIUS > Len(text) THEN Ellipsis ELSE <<>>)

\* The excerpt around the occurrence at 0-based position index
excerptAt(text, keyword, index) ==
  LET start == Max(0, index - CONTEXT_RADIUS)
      end == Min(Len(text), index + Len(keyword) + CONTEXT_RADIUS)
      body == trim(SubSeq(text, start + 1, end))
  IN (IF start > 0 THEN Ellipsis ELSE <<>>) \o body \o
     (IF end < Len(text) THEN Ellipsis ELSE <<>>)

\* The loop with one more occurrence let through
RECURSIVE keywordExcerptsOneMore(_, _, _, _)
keywordExcerptsOneMore(text, keyword, index, occurrences) ==
  LET found == indexOf(toLowerCase(text), toLowerCase(keyword), index)
  IN IF found = -1 \/ occurrences > MAX_OCCURRENCES THEN <<>>
     ELSE <<excerptAt(text, keyword, found)>> \o
          keywordExcerptsOneMore(text, keyword, found + Len(keyword), occurrences + 1)

\* The while loop over one keyword's occurrences
RECURSIVE keywordExcerpts(_, _, _, _)
keywordExcerpts(text, keyword, index, occurrences) ==
  LET found == indexOf(toLowerCase(text), toLowerCase(keyword), index)
  IN IF found = -1 \/ occurrences >= MAX_OCCURRENCES THEN <<>>
     ELSE <<excerptAt(text, keyword, found)>> \o
          keywordExcerpts(text, keyword, found + Len(keyword), occurrences + 1)

RECURSIVE allExcerpts(_, _)
allExcerpts(text, keywords) ==
  IF keywords = <<>> THEN <<>>
  ELSE keywordExcerpts(text, Head(keywords), 0, 0) \o allExcerpts(text, Tail(keywords))

ExcerptSeparator == <<"U000A", "U000A", "-", "-", "-", "U000A", "U000A">>

\* Array.prototype.join
RECURSIVE join(_, _)
join(parts, sep) ==
  IF parts = <<>> THEN <<>>
  ELSE IF Len(parts) = 1 THEN parts[1]
  ELSE parts[1] \o sep \o join(Tail(parts), sep)

extractRelevantContent(text, keywords) ==
  substring0(join(allExcerpts(text, keywords), ExcerptSeparator), MAX_EXCERPT_LENGTH)

CheckThrow(s) ==
  [ok |-> FALSE, requested |-> s.requested, error |-> s.error, changed |-> FALSE,
   matches |-> <<>>, content |-> <<>>, hash |-> Null]

CheckResult(s, changed, matches, content) ==
  [ok |-> TRUE, requested |-> s.requested, error |-> "", changed |-> changed,
   matches |-> matches, content |-> content, hash |-> s.hash]

\* The filter with the keyword looked for as it is written
matchKeywordsCaseSensitive(text, keywords) ==
  SelectSeq(keywords, LAMBDA k : includes(text, k))

\* keywords.filter(keyword => text.toLowerCase().includes(keyword.toLowerCase()))
matchKeywords(text, keywords) ==
  SelectSeq(keywords, LAMBDA k : includes(toLowerCase(text), toLowerCase(k)))

checkMatched(s, matches) ==
  IF matches = <<>> THEN CheckResult(s, TRUE, <<>>, <<>>)
  ELSE CheckResult(s, TRUE, matches, extractRelevantContent(s.text, matches))

\* checkScraped without the comparison of the fingerprints
checkScrapedIgnoresLastHash(s, keywords, lastHash) ==
  IF ~s.ok THEN CheckThrow(s)
  ELSE checkMatched(s, matchKeywords(s.text, keywords))

\* checkForSignal once scrape has returned or thrown
checkScraped(s, keywords, lastHash) ==
  IF ~s.ok THEN CheckThrow(s)
  ELSE IF s.hash = lastHash THEN CheckResult(s, FALSE, <<>>, <<>>)
  ELSE checkMatched(s, matchKeywords(s.text, keywords))

checkForSignal(url, keywords, lastHash, resp) ==
  checkScraped(scrape(url, resp), keywords, lastHash)

(***************************************************************************)
(* signal.js: the monitoring sessions, the interval callback, forceScan    *)
(***************************************************************************)

Owners == {"u1"}

\* Declared next to activeScrapes, a counter that stays 0: neither is read or
\* written by any function of signal.js
MAX_CONCURRENT_SCRAPES == 3

(* The runs explored: how many watch_targets rows the owner has and how many *)
(* operations of each kind the environment invokes.                         *)
(*   registry  many startMonitoring / stopMonitoring calls around one run   *)
(*   cycle     one run at a time over several targets, with a stop and an   *)
(*             edit of a target                                             *)
(*   overlap   several runs in flight at once                               *)
(*   idle      an owner without any active target                           *)
RegistryCalls == 3

RegistryProcs == 1

RegistryTargets == 1

CycleCalls == 2

CycleProcs == 1

CyclePuts == 1

CycleTargets == 2

OverlapCalls == 1

OverlapProcs == 2

OverlapTargets == 1

IdleCalls == 1

IdleProcs == 1

Scenario(calls_, procs_, puts_, targets_) ==
  [calls |-> calls_, procs |-> procs_, puts |-> puts_, targets |-> targets_]

Scenarios ==
  {Scenario(RegistryCalls, RegistryProcs, 0, RegistryTargets),
   Scenario(CycleCalls, CycleProcs, CyclePuts, CycleTargets),
   Scenario(OverlapCalls, OverlapProcs, 0, OverlapTargets),
   Scenario(IdleCalls, IdleProcs, 0, 0)}

KW_AI == <<"A", "I">>

UrlGood == Url(S_https, NameHost(S_example), <<"/">>)

UrlBlocked == Url(S_http, Ipv4Host(169, 254, 169, 254), <<"/">>)

\* Page texts: without the keyword, and two versions with it
TextPlain == <<"o", "k">>

TextAi == <<"a", "n", " ", " ", "A", "i">>

TextAi2 == <<"a", "i", "!">>

Responses ==
  {Response("response", 200, -1, TextPlain, <<>>),
   Response("response", 200, 120, TextAi, <<>>),
   Response("response", 200, -1, TextAi2, <<>>),
   Response("response", 500, -1, <<>>, <<>>),
   Response("response", 200, 500001, TextAi, <<>>),
   Response("reject", 0, -1, <<>>, <<>>),
   Response("redirect", 200, -1, TextPlain, Href(UrlBlocked))}

\* The summarizer's replies the engine is run against
SchedReplies ==
  {Reply("reject", NoObject),
   Reply("nomatch", NoObject),
   Reply("object", Analysis(JsString(<<"s">>), JsString(S_HIGH), JsString(<<"c">>)))}

TargetIds == DOMAIN store

\* A watch_targets row as POST /api/targets creates it
NewRow(id, u) ==
  [id |-> id, user_id |-> u, url |-> UrlGood, keywords |-> <<KW_AI>>,
   is_active |-> TRUE, last_hash |-> Null]

\* An entry of a run's trace: a call to a collaborator or an event handed to
\* onSignal / onNoise; t is the target's id (0: none), h a fingerprint, m a
\* message or an outcome
E(k, t, h, m) == [k |-> k, t |-> t, h |-> h, m |-> m]

NoResult == [ok |-> FALSE, requested |-> {}, error |-> "", changed |-> FALSE,
             matches |-> <<>>, content |-> <<>>, hash |-> Null]

\* aiAnalysis: null until ai.analyzeSignal has returned
NoAnalysis == [isNull |-> TRUE, a |-> NoObject]

SomeAnalysis(a) == [isNull |-> FALSE, a |-> a]

NewProc(kind, u, sid, log) ==
  [kind |-> kind, u |-> u, sid |-> sid, pc |-> "load", targets |-> <<>>, i |-> 0,
   result |-> NoResult, ai |-> NoAnalysis, log |-> log]

SchedInit ==
  /\ activeSessions = <<>>
  /\ sessions = <<>>
  /\ timers = {}
  /\ calls = <<>>
  /\ procs = <<>>
  /\ \E sc \in Scenarios :
       /\ budget = sc
       /\ store = [id \in 1..sc.targets |-> NewRow(id, "u1")]
  /\ signalsTable = <<>>
  /\ fetched = {}
  /\ started = <<>>

PureIdle ==
  /\ fname = "none"
  /\ arg = <<>>
  /\ ret = <<>>

\* No SSE connection, no stream request and no POST /api/targets request yet
StreamIdle ==
  /\ connections = <<>>
  /\ cleanups = <<>>
  /\ requests = <<>>
  /\ posts = <<>>

Init == SchedInit /\ PureIdle /\ StreamIdle

has(u) == u \in DOMAIN activeSessions

\* stopSync with every session stopped, whoever owns it
stopSyncEveryOwner(u) ==
  IF has(u)
  THEN /\ sessions' = [s \in 1..Len(sessions) |->
                         [sessions[s] EXCEPT !.isRunning = FALSE, !.interval = 0]]
       /\ timers' = {}
       /\ activeSessions' = <<>>
  ELSE UNCHANGED <<sessions, timers, activeSessions>>

\* The synchronous part of stopMonitoring(userId): up to its await
stopSync(u) ==
  IF has(u)
  THEN LET sid == activeSessions[u]
       IN /\ sessions' = [sessions EXCEPT ![sid].isRunning = FALSE, ![sid].interval = 0]
          /\ timers' = IF sessions[sid].interval # 0
                       THEN timers \ {sessions[sid].interval} ELSE timers
          /\ activeSessions' = [x \in (DOMAIN activeSessions) \ {u} |-> activeSessions[x]]
  ELSE UNCHANGED <<sessions, timers, activeSessions>>

\* getStatus(userId); sessionId 0 stands for null
getStatus(u) ==
  [isActive |-> has(u), sessionId |-> IF has(u) THEN activeSessions[u] ELSE 0]

\* conn: the SSE connection the callbacks given to the call write to (0: the
\* caller is not a stream route)
Call(op, u, pc, r) == [op |-> op, u |-> u, pc |-> pc, ret |-> r, conn |-> 0]

\* startMonitoring(userId) up to "await stopMonitoring(userId)": the wait is
\* the 100 ms grace period when a session was stopped, and otherwise only the
\* resumption of the caller
StartCall(u) ==
  /\ budget.calls > 0
  /\ budget' = [budget EXCEPT !.calls = @ - 1]
  /\ stopSync(u)
  /\ calls' = Append(calls, Call("start", u, IF has(u) THEN "grace" ELSE "resume", 0))
  /\ UNCHANGED <<procs, store, signalsTable, fetched, started, pureVars, streamVars, apiVars>>

\* startMonitoring after the await, without the check of line 28
startResumeNoDoubleCheck(c) ==
  LET u == calls[c].u
      sid == Len(sessions) + 1
  IN /\ sessions' = Append(sessions, [userId |-> u, isRunning |-> TRUE, interval |-> sid,
                                       callbacks |-> calls[c].conn])
     /\ timers' = timers \cup {sid}
     /\ activeSessions' = [x \in (DOMAIN activeSessions) \cup {u} |->
                             IF x = u THEN sid ELSE activeSessions[x]]
     /\ calls' = [calls EXCEPT ![c].pc = "returned", ![c].ret = sid]

\* startMonitoring after the await: the double-check, then the new session,
\* its interval timer and its registration
startResume(c) ==
  LET u == calls[c].u
      sid == Len(sessions) + 1
  IN IF has(u)
     THEN /\ calls' = [calls EXCEPT ![c].pc = "returned", ![c].ret = activeSessions[u]]
          /\ UNCHANGED <<sessions, timers, activeSessions>>
     ELSE /\ sessions' = Append(sessions, [userId |-> u, isRunning |-> TRUE, interval |-> sid,
                                       callbacks |-> calls[c].conn])
          /\ timers' = timers \cup {sid}
          /\ activeSessions' = [x \in (DOMAIN activeSessions) \cup {u} |->
                                  IF x = u THEN sid ELSE activeSessions[x]]
          /\ calls' = [calls EXCEPT ![c].pc = "returned", ![c].ret = sid]

\* StartResume with a first run of the callback begun by the start itself
StartResumeScansAtOnce(c) ==
  /\ calls[c].op = "start"
  /\ calls[c].pc \in {"grace", "resume"}
  /\ startResume(c)
  /\ procs' = IF has(calls[c].u) THEN procs
              ELSE Append(procs, NewProc("tick", calls[c].u, Len(sessions) + 1, <<>>))
  /\ UNCHANGED <<store, signalsTable, fetched, budget, started, pureVars, streamVars, apiVars>>

StartResume(c) ==
  /\ calls[c].op = "start"
  /\ calls[c].pc \in {"grace", "resume"}
  /\ startResume(c)
  /\ UNCHANGED <<procs, store, signalsTable, fetched, budget, started, pureVars, streamVars, apiVars>>

\* StopCall with the 100 ms wait taken whether or not a session was found
StopCallAlwaysWaits(u) ==
  /\ budget.calls > 0
  /\ budget' = [budget EXCEPT !.calls = @ - 1]
  /\ stopSync(u)
  /\ calls' = Append(calls, Call("stop", u, "grace", 0))
  /\ UNCHANGED <<procs, store, signalsTable, fetched, started, pureVars, streamVars, apiVars>>

\* stopMonitoring(userId) called on its own
StopCall(u) ==
  /\ budget.calls > 0
  /\ budget' = [budget EXCEPT !.calls = @ - 1]
  /\ stopSync(u)
  /\ calls' = Append(calls, Call("stop", u, IF has(u) THEN "grace" ELSE "returned", 0))
  /\ UNCHANGED <<procs, store, signalsTable, fetched, started, pureVars, streamVars, apiVars>>

\* The 100 ms timeout of a stopMonitoring call ends
StopGraceEnd(c) ==
  /\ calls[c].op = "stop"
  /\ calls[c].pc = "grace"
  /\ calls' = [calls EXCEPT ![c].pc = "returned"]
  /\ UNCHANGED <<activeSessions, sessions, timers, procs, store, signalsTable,
                 fetched, budget, started, pureVars, streamVars, apiVars>>

\* The interval timer of session sid fires: the callback up to its first await
TimerFire(sid) ==
  /\ sid \in timers
  /\ budget.procs > 0
  /\ budget' = [budget EXCEPT !.procs = @ - 1]
  /\ procs' = IF ~sessions[sid].isRunning THEN procs
              ELSE Append(procs, NewProc("tick", sessions[sid].userId, sid, <<>>))
  /\ UNCHANGED <<activeSessions, sessions, timers, calls, store, signalsTable,
                 fetched, started, pureVars, streamVars, apiVars>>

\* ForceScan with the owner's session stopped before the scan
ForceScanStopsSession(u) ==
  /\ budget.procs > 0
  /\ budget' = [budget EXCEPT !.procs = @ - 1]
  /\ stopSync(u)
  /\ procs' = Append(procs, NewProc("force", u, 0, <<E("noise_manual_initiated", 0, Null, "")>>))
  /\ UNCHANGED <<calls, store, signalsTable, fetched, started, pureVars, streamVars, apiVars>>

\* forceScan(userId) up to its first await
ForceScan(u) ==
  /\ budget.procs > 0
  /\ budget' = [budget EXCEPT !.procs = @ - 1]
  /\ procs' = Append(procs, NewProc("force", u, 0, <<E("noise_manual_initiated", 0, Null, "")>>))
  /\ UNCHANGED <<activeSessions, sessions, timers, calls, store, signalsTable,
                 fetched, started, pureVars, streamVars, apiVars>>

\* targets.getActiveByUser(userId): the owner's active rows
getActiveByUser(u) ==
  LET ids == [i \in 1..Len(store) |-> i]
      live == SelectSeq(ids, LAMBDA i : store[i].user_id = u /\ store[i].is_active)
  IN [k \in 1..Len(live) |-> store[live[k]]]

Log(pr, entries) == [pr EXCEPT !.log = @ \o entries]

\* What follows a target's try/catch: the 1 s pause of the interval callback;
\* in forceScan the next iteration, or the end of the loop
afterTarget(pr) ==
  IF pr.kind = "tick" THEN [pr EXCEPT !.pc = "pause"]
  ELSE IF pr.i < Len(pr.targets)
    THEN [pr EXCEPT !.i = @ + 1, !.pc = "fetch",
                    !.log = Append(@, E("noise_scanning", pr.targets[pr.i + 1].id, Null, ""))]
  ELSE [pr EXCEPT !.pc = "done",
                  !.log = Append(@, E("noise_manual_complete", 0, Null, ""))]

\* The catch block of one target without the per-target try: the error
\* reaches the outer catch and ends the run
targetErrorAbortsRun(pr, entries, msg) ==
  [pr EXCEPT !.pc = "done",
             !.log = @ \o entries \o
                     <<E(IF pr.kind = "tick" THEN "noise_system_error" ELSE "noise_scan_failed",
                         0, Null, msg)>>]

\* The catch block of one target with the failed target tried again at once
targetErrorRetries(pr, entries, msg) ==
  [Log(pr, entries \o <<E("noise_error", pr.targets[pr.i].id, Null, msg)>>)
     EXCEPT !.pc = "fetch"]

\* The catch block of one target: an error line, and the run goes on
targetError(pr, entries, msg) ==
  afterTarget(Log(pr, entries \o <<E("noise_error", pr.targets[pr.i].id, Null, msg)>>))

\* The scans on record once run p has taken its step: the step begins the
\* scan of a target when it moves the run to its first or next target
scansStarted(p) ==
  IF procs'[p].i > procs[p].i THEN Append(started, <<p, procs'[p].i>>) ELSE started

\* ProcLoad without the outer try/catch: a failure of the load ends the run
\* with no line written
ProcLoadUncaught(p) ==
  /\ procs[p].pc = "load"
  /\ \E ok \in BOOLEAN :
       LET pr == procs[p]
           rows == getActiveByUser(pr.u)
       IN procs' = [procs EXCEPT ![p] =
            IF ~ok THEN [pr EXCEPT !.pc = "done"]
            ELSE IF rows = <<>>
            THEN [Log(pr, <<E(IF pr.kind = "tick" THEN "noise_periodic"
                              ELSE "noise_manual_complete", 0, Null, "")>>)
                    EXCEPT !.pc = "done"]
            ELSE [Log(pr, IF pr.kind = "force"
                          THEN <<E("noise_scanning", rows[1].id, Null, "")>> ELSE <<>>)
                    EXCEPT !.targets = rows, !.i = 1, !.pc = "fetch"]]
  /\ UNCHANGED <<activeSessions, sessions, timers, calls, store, signalsTable,
                 fetched, budget, pureVars, streamVars, apiVars>>
  /\ started' = scansStarted(p)

\* The load of the owner's targets returns or throws
ProcLoad(p) ==
  /\ procs[p].pc = "load"
  /\ \E ok \in BOOLEAN :
       LET pr == procs[p]
           rows == getActiveByUser(pr.u)
       IN procs' = [procs EXCEPT ![p] =
            IF ~ok
            THEN [Log(pr, <<E(IF pr.kind = "tick" THEN "noise_system_error"
                              ELSE "noise_scan_failed", 0, Null, "storage")>>)
                    EXCEPT !.pc = "done"]
            ELSE IF rows = <<>>
            THEN [Log(pr, <<E(IF pr.kind = "tick" THEN "noise_periodic"
                              ELSE "noise_manual_complete", 0, Null, "")>>)
                    EXCEPT !.pc = "done"]
            ELSE [Log(pr, IF pr.kind = "force"
                          THEN <<E("noise_scanning", rows[1].id, Null, "")>> ELSE <<>>)
                    EXCEPT !.targets = rows, !.i = 1, !.pc = "fetch"]]
  /\ UNCHANGED <<activeSessions, sessions, timers, calls, store, signalsTable,
                 fetched, budget, pureVars, streamVars, apiVars>>
  /\ started' = scansStarted(p)

\* afterUpdate with the "content updated" test made before the match test:
\* the line is written for every changed page, also when a keyword matched
afterUpdateNoiseFirst(pr) ==
  LET target == pr.targets[pr.i]
      noted == IF pr.kind = "tick" /\ pr.result.changed
               THEN Log(pr, <<E("noise_updated", target.id, Null, "")>>) ELSE pr
  IN IF pr.result.matches # <<>>
     THEN IF pr.kind = "tick" /\ pr.result.content = <<>>
          THEN [noted EXCEPT !.pc = "create"]
          ELSE [noted EXCEPT !.pc = "ai"]
     ELSE afterTarget(
            IF pr.kind = "force" THEN Log(pr, <<E("noise_complete", target.id, Null, "")>>)
            ELSE IF pr.result.changed THEN noted
            ELSE Log(pr, <<E("noise_nochange", target.id, Null, "")>>))

\* What the run does once targets.updateLastCheck has returned
afterUpdate(pr) ==
  LET target == pr.targets[pr.i]
  IN IF pr.result.matches # <<>>
     THEN IF pr.kind = "tick" /\ pr.result.content = <<>>
          THEN [pr EXCEPT !.pc = "create"]
          ELSE [pr EXCEPT !.pc = "ai"]
     ELSE afterTarget(Log(pr, <<E(
            IF pr.kind = "force" THEN "noise_complete"
            ELSE IF pr.result.changed THEN "noise_updated" ELSE "noise_nochange",
            target.id, Null, "")>>))

\* How checkForSignal classified the page
classOf(r) ==
  IF ~r.ok THEN "error"
  ELSE IF ~r.changed THEN "unchanged"
  ELSE IF r.matches = <<>> THEN "changed" ELSE "matched"

\* The trace of a request issued for the target (none when the guard threw)
fetchEntry(target, r) ==
  IF r.requested = {} THEN <<>> ELSE <<E("fetch", target.id, r.hash, classOf(r))>>

\* fetchDone with the fingerprint written only when the page changed
fetchDoneSkipUnchanged(pr, target, r) ==
  IF r.ok
  THEN IF r.changed
       THEN [Log(pr, fetchEntry(target, r)) EXCEPT !.result = r, !.pc = "update"]
       ELSE afterUpdate([Log(pr, fetchEntry(target, r)) EXCEPT !.result = r])
  ELSE targetError(pr, fetchEntry(target, r), r.error)

\* The run once checkForSignal has returned or thrown with r
fetchDone(pr, target, r) ==
  IF r.ok THEN [Log(pr, fetchEntry(target, r)) EXCEPT !.result = r, !.pc = "update"]
  ELSE targetError(pr, fetchEntry(target, r), r.error)

fetchStep(p, pr, target, r) ==
  /\ fetched' = fetched \cup r.requested
  /\ procs' = [procs EXCEPT ![p] = fetchDone(pr, target, r)]

\* ProcFetch with the stored fingerprint handed to checkForSignal by
\* forceScan as well
ProcFetchUsesStoredHash(p) ==
  /\ procs[p].pc = "fetch"
  /\ \E resp \in Responses :
       fetchStep(p, procs[p], procs[p].targets[procs[p].i],
                 checkForSignal(procs[p].targets[procs[p].i].url,
                                procs[p].targets[procs[p].i].keywords,
                                procs[p].targets[procs[p].i].last_hash,
                                resp))
  /\ UNCHANGED <<activeSessions, sessions, timers, calls, store, signalsTable,
                 budget, pureVars, streamVars, apiVars>>
  /\ started' = scansStarted(p)

\* checkForSignal for the current target: the guard, the request and the
\* analysis of what the network returns
ProcFetch(p) ==
  /\ procs[p].pc = "fetch"
  /\ \E resp \in Responses :
       fetchStep(p, procs[p], procs[p].targets[procs[p].i],
                 checkForSignal(procs[p].targets[procs[p].i].url,
                                procs[p].targets[procs[p].i].keywords,
                                IF procs[p].kind = "tick"
                                THEN procs[p].targets[procs[p].i].last_hash ELSE Null,
                                resp))
  /\ UNCHANGED <<activeSessions, sessions, timers, calls, store, signalsTable,
                 budget, pureVars, streamVars, apiVars>>
  /\ started' = scansStarted(p)

\* targets.updateLastCheck(target.id, result.hash) returns or throws
ProcUpdate(p) ==
  /\ procs[p].pc = "update"
  /\ \E ok \in BOOLEAN :
       LET pr == procs[p]
           target == pr.targets[pr.i]
           call == E("updateLastCheck", target.id, pr.result.hash, IF ok THEN "ok" ELSE "failed")
       IN /\ store' = IF ok THEN [store EXCEPT ![target.id].last_hash = pr.result.hash]
                      ELSE store
          /\ procs' = [procs EXCEPT ![p] =
               IF ok THEN afterUpdate(Log(pr, <<call>>))
               ELSE targetError(pr, <<call>>, "storage")]
  /\ UNCHANGED <<activeSessions, sessions, timers, calls, signalsTable, fetched,
                 budget, pureVars, streamVars, apiVars>>
  /\ started' = scansStarted(p)

\* The arguments of ai.analyzeSignal(result.content, result.matches)
aiKeywords(pr) == JsArray([k \in 1..Len(pr.result.matches) |-> JsString(pr.result.matches[k])])

\* aiDone with a failure of the summarizer thrown to the target's catch block
aiDoneThrows(pr, reply) ==
  IF reply.kind # "object" THEN targetError(pr, <<>>, "ai")
  ELSE [pr EXCEPT !.pc = "create",
                  !.ai = SomeAnalysis(analyzeSignal(JsString(pr.result.content),
                                                    aiKeywords(pr), reply))]

\* The run once ai.analyzeSignal has returned: signals.create is called next
aiDone(pr, reply) ==
  [pr EXCEPT !.pc = "create",
             !.ai = SomeAnalysis(analyzeSignal(JsString(pr.result.content),
                                               aiKeywords(pr), reply))]

\* ai.analyzeSignal(result.content, result.matches) returns
ProcAI(p) ==
  /\ procs[p].pc = "ai"
  /\ \E reply \in SchedReplies : procs' = [procs EXCEPT ![p] = aiDone(procs[p], reply)]
  /\ UNCHANGED <<activeSessions, sessions, timers, calls, store, signalsTable,
                 fetched, budget, pureVars, streamVars, apiVars>>
  /\ started' = scansStarted(p)

\* The row given to signals.create
signalRow(pr) ==
  LET target == pr.targets[pr.i]
  IN [target_id |-> target.id,
      user_id |-> pr.u,
      content |-> pr.result.content,
      matched_keywords |-> pr.result.matches,
      ai_summary |-> IF ~pr.ai.isNull /\ Truthy(pr.ai.a.summary)
                     THEN pr.ai.a.summary ELSE JsNull,
      ai_threat_level |-> IF ~pr.ai.isNull /\ Truthy(pr.ai.a.threat_level)
                          THEN pr.ai.a.threat_level ELSE JsString(S_UNKNOWN),
      ai_category |-> IF ~pr.ai.isNull /\ Truthy(pr.ai.a.category)
                      THEN pr.ai.a.category ELSE JsString(S_UNKNOWN),
      source_url |-> target.url]

\* signals.create returns or throws; on return the signal event
ProcCreate(p) ==
  /\ procs[p].pc = "create"
  /\ \E ok \in BOOLEAN :
       LET pr == procs[p]
           target == pr.targets[pr.i]
           call == E("createSignal", target.id, pr.result.hash, IF ok THEN "ok" ELSE "failed")
       IN /\ signalsTable' = IF ok THEN Append(signalsTable, signalRow(pr)) ELSE signalsTable
          /\ procs' = [procs EXCEPT ![p] =
               IF ok THEN afterTarget(Log(pr, <<call, E("signal", target.id, pr.result.hash, "")>>))
               ELSE targetError(pr, <<call>>, "storage")]
  /\ UNCHANGED <<activeSessions, sessions, timers, calls, store, fetched, budget, pureVars, streamVars, apiVars>>
  /\ started' = scansStarted(p)

\* ProcPause with the generated noise written after every target
ProcPauseNoiseEachTarget(p) ==
  /\ procs[p].pc = "pause"
  /\ LET pr == Log(procs[p], <<E("noise_periodic", 0, Null, "")>>)
     IN procs' = [procs EXCEPT ![p] =
          IF pr.i < Len(pr.targets) THEN [pr EXCEPT !.i = @ + 1, !.pc = "fetch"]
          ELSE [pr EXCEPT !.pc = "done"]]
  /\ UNCHANGED <<activeSessions, sessions, timers, calls, store, signalsTable,
                 fetched, budget, pureVars, streamVars, apiVars>>
  /\ started' = scansStarted(p)

\* The 1 s pause after a target ends: the next target, or the periodic noise
ProcPause(p) ==
  /\ procs[p].pc = "pause"
  /\ LET pr == procs[p]
     IN procs' = [procs EXCEPT ![p] =
          IF pr.i < Len(pr.targets) THEN [pr EXCEPT !.i = @ + 1, !.pc = "fetch"]
          ELSE [Log(pr, <<E("noise_periodic", 0, Null, "")>>) EXCEPT !.pc = "done"]]
  /\ UNCHANGED <<activeSessions, sessions, timers, calls, store, signalsTable,
                 fetched, budget, pureVars, streamVars, apiVars>>
  /\ started' = scansStarted(p)

(***************************************************************************)
(* routes/targets.js: POST /api/targets, PUT /api/targets/:id              *)
(***************************************************************************)

MAX_KEYWORDS == 20

MAX_KEYWORD_LENGTH == 100

MAX_TARGETS_PER_USER == 20

\* The request bodies tried: a url (parsable or not) or an is_active flag
PutBodies ==
  {[field |-> "url", url |-> UrlBlocked, is_active |-> TRUE, keywords |-> JsUndefined],
   [field |-> "url", url |-> UrlGood, is_active |-> TRUE, keywords |-> JsUndefined],
   [field |-> "url", url |-> Unparsable, is_active |-> TRUE, keywords |-> JsUndefined],
   [field |-> "is_active", url |-> Unparsable, is_active |-> FALSE, keywords |-> JsUndefined]}

\* keywords.map(k => k.trim()).filter(k => k) on an array of strings
putKeywords(items) ==
  LET trimmed == [i \in 1..Len(items) |-> trim(items[i].v)]
  IN SelectSeq(trimmed, LAMBDA k : k # <<>>)

\* The handler: new URL(url) is the only check on the url; the keywords are
\* trimmed and the empty ones dropped, and a value that has no map method or
\* an item that has no trim method makes the handler answer 500
putTarget(id, body) ==
  IF body.field = "url"
  THEN IF ~body.url.parses THEN store
       ELSE [store EXCEPT ![id].url = body.url]
  ELSE IF body.field = "keywords"
  THEN IF body.keywords.t # "array" THEN store
       ELSE IF \E i \in 1..Len(body.keywords.v) : body.keywords.v[i].t # "string" THEN store
       ELSE [store EXCEPT ![id].keywords = putKeywords(body.keywords.v)]
  ELSE [store EXCEPT ![id].is_active = body.is_active]

PutTarget(id, body) ==
  /\ budget.puts > 0
  /\ budget' = [budget EXCEPT !.puts = @ - 1]
  /\ store' = putTarget(id, body)
  /\ UNCHANGED <<activeSessions, sessions, timers, calls, procs, signalsTable,
                 fetched, started, pureVars, streamVars, apiVars>>

\* keywords.filter(string).map(trim).filter(0 < length <= MAX_KEYWORD_LENGTH)
validKeywords(items) ==
  LET strings == SelectSeq(items, LAMBDA k : k.t = "string")
      trimmed == [i \in 1..Len(strings) |-> trim(strings[i].v)]
  IN SelectSeq(trimmed, LAMBDA k : Len(k) > 0 /\ Len(k) <= MAX_KEYWORD_LENGTH)

\* The row POST /api/targets hands to targets.create
postRow(id, u, body) ==
  [id |-> id, user_id |-> u, url |-> body.url, keywords |-> validKeywords(body.keywords.v),
   is_active |-> TRUE, last_hash |-> Null]

\* The checks of POST /api/targets, in the code's order; created tells
\* whether targets.create succeeded
postTarget(u, body, created) ==
  IF ~validateUrl(body.url).ok THEN store
  ELSE IF body.keywords.t # "array" THEN store
  ELSE IF Len(body.keywords.v) = 0 \/ Len(body.keywords.v) > MAX_KEYWORDS THEN store
  ELSE IF validKeywords(body.keywords.v) = <<>> THEN store
  ELSE IF Cardinality({i \in DOMAIN store : store[i].user_id = u}) >= MAX_TARGETS_PER_USER
    THEN store
  ELSE IF ~created THEN store
  ELSE Append(store, postRow(Len(store) + 1, u, body))

\* POST /api/targets while the owner has fewer rows than the run allows
PostTarget(u, body) ==
  /\ Len(store) < budget.targets
  /\ \E created \in BOOLEAN : store' = postTarget(u, body, created)
  /\ UNCHANGED <<activeSessions, sessions, timers, calls, procs, signalsTable,
                 fetched, started, budget, pureVars, streamVars, apiVars>>

Next ==
  \/ \E u \in Owners : StartCall(u)
  \/ \E u \in Owners : StopCall(u)
  \/ \E c \in 1..Len(calls) : StartResume(c)
  \/ \E c \in 1..Len(calls) : StopGraceEnd(c)
  \/ \E sid \in timers : TimerFire(sid)
  \/ \E u \in Owners : ForceScan(u)
  \/ \E p \in 1..Len(procs) : ProcLoad(p)
  \/ \E p \in 1..Len(procs) : ProcFetch(p)
  \/ \E p \in 1..Len(procs) : ProcUpdate(p)
  \/ \E p \in 1..Len(procs) : ProcAI(p)
  \/ \E p \in 1..Len(procs) : ProcCreate(p)
  \/ \E p \in 1..Len(procs) : ProcPause(p)
  \/ \E id \in TargetIds, body \in PutBodies : PutTarget(id, body)

Spec == Init /\ [][Next]_vars

(***************************************************************************)
(* Runs started in a burst, each followed up to the request for its first  *)
(* target: a session's ticks and the owner's force scans while no page has *)
(* answered yet                                                            *)
(***************************************************************************)

BurstCalls == 1

BurstProcs == 4

BurstTargets == 1

InitBurst ==
  /\ activeSessions = <<>>
  /\ sessions = <<>>
  /\ timers = {}
  /\ calls = <<>>
  /\ procs = <<>>
  /\ budget = Scenario(BurstCalls, BurstProcs, 0, BurstTargets)
  /\ store = [id \in 1..BurstTargets |-> NewRow(id, "u1")]
  /\ signalsTable = <<>>
  /\ fetched = {}
  /\ started = <<>>
  /\ PureIdle
  /\ StreamIdle

NextBurst ==
  \/ \E u \in Owners : StartCall(u)
  \/ \E c \in 1..Len(calls) : StartResume(c)
  \/ \E sid \in timers : TimerFire(sid)
  \/ \E u \in Owners : ForceScan(u)
  \/ \E p \in 1..Len(procs) : ProcLoad(p)

SpecBurst == InitBurst /\ [][NextBurst]_vars

(***************************************************************************)
(* Two owners side by side: each with one target, their calls and runs     *)
(* interleaved                                                             *)
(***************************************************************************)

BothOwners == {"u1", "u2"}

OwnersCalls == 3

OwnersProcs == 1

InitOwners ==
  /\ activeSessions = <<>>
  /\ sessions = <<>>
  /\ timers = {}
  /\ calls = <<>>
  /\ procs = <<>>
  /\ budget = Scenario(OwnersCalls, OwnersProcs, 0, 2)
  /\ store = <<NewRow(1, "u1"), NewRow(2, "u2")>>
  /\ signalsTable = <<>>
  /\ fetched = {}
  /\ started = <<>>
  /\ PureIdle
  /\ StreamIdle

NextOwners ==
  \/ \E u \in BothOwners : StartCall(u)
  \/ \E u \in BothOwners : StopCall(u)
  \/ \E c \in 1..Len(calls) : StartResume(c)
  \/ \E c \in 1..Len(calls) : StopGraceEnd(c)
  \/ \E sid \in timers : TimerFire(sid)
  \/ \E u \in BothOwners : ForceScan(u)
  \/ \E p \in 1..Len(procs) : ProcLoad(p)
  \/ \E p \in 1..Len(procs) : ProcFetch(p)
  \/ \E p \in 1..Len(procs) : ProcUpdate(p)
  \/ \E p \in 1..Len(procs) : ProcAI(p)
  \/ \E p \in 1..Len(procs) : ProcCreate(p)
  \/ \E p \in 1..Len(procs) : ProcPause(p)

SpecOwners == InitOwners /\ [][NextOwners]_vars

(***************************************************************************)
(* A session left running on a page that has changed to a text holding    *)
(* the keyword and stays as it is: the interval fires again and again,     *)
(* each time after the run before it has ended                             *)
(***************************************************************************)

\* What the network returns in these runs: the page, or no answer
SteadyResponses ==
  {Response("response", 200, -1, TextAi, <<>>),
   Response("reject", 0, -1, <<>>, <<>>)}

RetryTargets == 2

InitRetry ==
  /\ activeSessions = <<>>
  /\ sessions = <<>>
  /\ timers = {}
  /\ calls = <<>>
  /\ procs = <<>>
  /\ budget = Scenario(1, 0, 0, RetryTargets)
  /\ store = [id \in 1..RetryTargets |-> NewRow(id, "u1")]
  /\ signalsTable = <<>>
  /\ fetched = {}
  /\ started = <<>>
  /\ PureIdle
  /\ StreamIdle

\* The interval timer of session sid fires once the runs before have ended;
\* the ended runs are let go of
TimerFireNext(sid) ==
  /\ sid \in timers
  /\ sessions[sid].isRunning
  /\ \A p \in 1..Len(procs) : procs[p].pc = "done"
  /\ procs' = <<NewProc("tick", sessions[sid].userId, sid, <<>>)>>
  /\ started' = <<>>
  /\ UNCHANGED <<activeSessions, sessions, timers, calls, store, signalsTable,
                 fetched, budget, pureVars, streamVars, apiVars>>

\* checkForSignal for the current target, the page being the one above
ProcFetchSteady(p) ==
  /\ procs[p].pc = "fetch"
  /\ \E resp \in SteadyResponses :
       fetchStep(p, procs[p], procs[p].targets[procs[p].i],
                 checkForSignal(procs[p].targets[procs[p].i].url,
                                procs[p].targets[procs[p].i].keywords,
                                IF procs[p].kind = "tick"
                                THEN procs[p].targets[procs[p].i].last_hash ELSE Null,
                                resp))
  /\ UNCHANGED <<activeSessions, sessions, timers, calls, store, signalsTable,
                 budget, pureVars, streamVars, apiVars>>
  /\ started' = scansStarted(p)

NextRetry ==
  \/ \E u \in Owners : StartCall(u)
  \/ \E c \in 1..Len(calls) : StartResume(c)
  \/ \E sid \in timers : TimerFireNext(sid)
  \/ \E p \in 1..Len(procs) : ProcLoad(p)
  \/ \E p \in 1..Len(procs) : ProcFetchSteady(p)
  \/ \E p \in 1..Len(procs) : ProcUpdate(p)
  \/ \E p \in 1..Len(procs) : ProcAI(p)
  \/ \E p \in 1..Len(procs) : ProcCreate(p)
  \/ \E p \in 1..Len(procs) : ProcPause(p)

\* The event loop goes on: a call that can resume resumes, a timer that is
\* set fires, a pending await of a run is answered
SpecRetry == InitRetry /\ [][NextRetry]_vars /\ WF_vars(NextRetry)

(***************************************************************************)
(* The management API on its own: targets created and edited               *)
(***************************************************************************)

TargetsPuts == 2

TargetsRows == 2

KeywordValues ==
  {JsArray(<<>>),
   JsArray(<<JsString(<<" ">>)>>),
   JsArray(<<JsString(<<" ", "A", "I", " ">>), JsString(<<>>)>>),
   JsArray(<<JsString(KW_AI), JsNumber>>),
   JsArray(<<JsNumber>>),
   JsArray(<<JsString(Rep("k", MAX_KEYWORD_LENGTH + 1))>>),
   JsArray(<<JsString(Rep("k", MAX_KEYWORD_LENGTH)), JsString(Rep("k", MAX_KEYWORD_LENGTH + 1))>>),
   JsArray([i \in 1..(MAX_KEYWORDS + 1) |-> JsString(KW_AI)]),
   JsString(KW_AI),
   JsNull,
   JsUndefined}

PostBodies ==
  {[url |-> u, keywords |-> k] : u \in {UrlGood, UrlBlocked, Unparsable}, k \in KeywordValues}

\* PUT bodies: those with a url or an is_active flag, and those with keywords
TargetPutBodies ==
  PutBodies \cup
  {[field |-> "keywords", url |-> Unparsable, is_active |-> TRUE, keywords |-> k] :
     k \in KeywordValues \ {JsUndefined}}

InitTargets ==
  /\ activeSessions = <<>>
  /\ sessions = <<>>
  /\ timers = {}
  /\ calls = <<>>
  /\ procs = <<>>
  /\ store = <<>>
  /\ signalsTable = <<>>
  /\ fetched = {}
  /\ started = <<>>
  /\ budget = Scenario(0, 0, TargetsPuts, TargetsRows)
  /\ PureIdle
  /\ StreamIdle

NextTargets ==
  \/ \E u \in Owners, body \in PostBodies : PostTarget(u, body)
  \/ \E id \in TargetIds, body \in TargetPutBodies : PutTarget(id, body)

SpecTargets == InitTargets /\ [][NextTargets]_vars

(***************************************************************************)
(* POST /api/targets step by step: the checks of the body, the await of   *)
(* targets.getByUser, the await of targets.create; several requests in     *)
(* flight for owners of whom one is a row short of the limit               *)
(***************************************************************************)

QuotaPosts == 3

\* The rows the owner has when the requests arrive
QuotaRows == MAX_TARGETS_PER_USER - 1

QuotaBodies ==
  {[url |-> UrlGood, keywords |-> JsArray(<<JsString(KW_AI)>>)],
   [url |-> UrlBlocked, keywords |-> JsArray(<<JsString(KW_AI)>>)],
   [url |-> UrlGood, keywords |-> JsArray(<<>>)]}

\* A request: pc is "count" while targets.getByUser is awaited, "create"
\* while targets.create is awaited, "done" once it is answered with status
Post(u, body, pc, status) == [u |-> u, body |-> body, pc |-> pc, status |-> status]

\* Whether the body passes the checks made before the first await
bodyAccepted(body) ==
  /\ validateUrl(body.url).ok
  /\ body.keywords.t = "array"
  /\ Len(body.keywords.v) > 0 /\ Len(body.keywords.v) <= MAX_KEYWORDS
  /\ validKeywords(body.keywords.v) # <<>>

\* existingTargets.length for the owner
targetCount(u) == Cardinality({i \in DOMAIN store : store[i].user_id = u})

InitQuota ==
  /\ activeSessions = <<>>
  /\ sessions = <<>>
  /\ timers = {}
  /\ calls = <<>>
  /\ procs = <<>>
  /\ store = [id \in 1..QuotaRows |-> NewRow(id, "u1")]
  /\ signalsTable = <<>>
  /\ fetched = {}
  /\ started = <<>>
  /\ budget = Scenario(0, 0, 0, 0)
  /\ PureIdle
  /\ StreamIdle

\* The handler up to "await targets.getByUser(userId)", or to the 400 answer
PostArrive(u, body) ==
  /\ Len(posts) < QuotaPosts
  /\ posts' = Append(posts, IF bodyAccepted(body) THEN Post(u, body, "count", 0)
                            ELSE Post(u, body, "done", 400))
  /\ UNCHANGED <<schedVarsButPosts, pureVars>>

\* targets.getByUser has returned (or thrown): the test of the limit
postCounted(k, ok) ==
  IF ~ok THEN [posts EXCEPT ![k].pc = "done", ![k].status = 500]
  ELSE IF targetCount(posts[k].u) >= MAX_TARGETS_PER_USER
    THEN [posts EXCEPT ![k].pc = "done", ![k].status = 400]
  ELSE [posts EXCEPT ![k].pc = "create"]

PostCounted(k) ==
  /\ posts[k].pc = "count"
  /\ \E ok \in BOOLEAN : posts' = postCounted(k, ok)
  /\ UNCHANGED <<schedVarsButPosts, pureVars>>

\* targets.create has returned (or thrown): the 201 answer
PostCreated(k) ==
  /\ posts[k].pc = "create"
  /\ \E ok \in BOOLEAN :
       /\ posts' = [posts EXCEPT ![k].pc = "done", ![k].status = IF ok THEN 201 ELSE 500]
       /\ store' = IF ok THEN Append(store, postRow(Len(store) + 1, posts[k].u, posts[k].body))
                   ELSE store
  /\ UNCHANGED <<activeSessions, sessions, timers, calls, procs, signalsTable, fetched,
                 started, budget, pureVars, streamVars>>

NextQuota ==
  \/ \E u \in BothOwners, body \in QuotaBodies : PostArrive(u, body)
  \/ \E k \in 1..Len(posts) : PostCounted(k)
  \/ \E k \in 1..Len(posts) : PostCreated(k)

SpecQuota == InitQuota /\ [][NextQuota]_vars

(***************************************************************************)
(* validateUrl on its own: every input, then the call                      *)
(***************************************************************************)

SchedIdle ==
  /\ activeSessions = <<>>
  /\ sessions = <<>>
  /\ timers = {}
  /\ calls = <<>>
  /\ procs = <<>>
  /\ store = <<>>
  /\ signalsTable = <<>>
  /\ fetched = {}
  /\ started = <<>>
  /\ budget = Scenario(0, 0, 0, 0)
  /\ StreamIdle

\* First and second octets around every boundary of the blocked ranges
GuardOctetsA == {0, 1, 9, 10, 11, 126, 127, 128, 168, 169, 170, 171, 172, 173, 191, 192, 193, 255}

GuardOctetsB == {0, 1, 15, 16, 17, 30, 31, 32, 167, 168, 169, 253, 254, 255}

GuardOctetsCD == {0, 1, 255}

S_localhostDot == S_localhost \o <<".">>

S_LocalHostMixed == <<"L", "o", "c", "a", "l", "H", "o", "s", "t">>

S_metadata == <<"m", "e", "t", "a", "d", "a", "t", "a">>

GuardNames ==
  {S_localhost, S_LocalHostMixed, S_v6loopBr, S_metaGoogle, S_metaGke, S_kube,
   S_example, S_localhostDot, S_metadata}

GuardHosts ==
  {Ipv4Host(a, b, c, d) : a \in GuardOctetsA, b \in GuardOctetsB,
                          c \in GuardOctetsCD, d \in GuardOctetsCD}
  \cup {NameHost(n) : n \in GuardNames}

GuardInputs ==
  {Unparsable}
  \cup {Url(pr, h, <<"/">>) : pr \in {S_http, S_https}, h \in GuardHosts}
  \cup {Url(S_ftp, h, <<"/">>) :
          h \in {NameHost(S_example), Ipv4Host(10, 0, 0, 1), NameHost(S_localhost),
                 Ipv4Host(127, 0, 0, 1), NameHost(S_metaGoogle)}}
  \cup {Url(S_http, Ipv4Host(127, 0, 0, 2), <<"/">>)}
  \cup {Url(S_https, NameHost(S_example), <<"/", "a", "p", "i">>)}

InitGuard ==
  /\ SchedIdle
  /\ fname = "validateUrl:call"
  /\ arg \in GuardInputs
  /\ ret = Throw("")

GuardValidate ==
  /\ fname = "validateUrl:call"
  /\ fname' = "validateUrl:return"
  /\ ret' = validateUrl(arg)
  /\ UNCHANGED <<arg, schedVars>>

SpecGuard == InitGuard /\ [][GuardValidate]_vars

(***************************************************************************)
(* ai.analyzeSignal on its own: the inputs, the sanitization up to the     *)
(* call of the summarizer, then its reply                                  *)
(***************************************************************************)

MaxTextLen == 4       \* length of the short excerpts enumerated

MaxKeywords == 2      \* length of the keyword lists enumerated

AiChars == {"a", BackTick, "U0000"}

RECURSIVE SeqsUpTo(_, _)
SeqsUpTo(S, n) ==
  IF n = 0 THEN {<<>>}
  ELSE SeqsUpTo(S, n - 1) \cup
       {Append(q, c) : q \in {x \in SeqsUpTo(S, n - 1) : Len(x) = n - 1}, c \in S}

\* Excerpts longer than the cap: plain, with fences and control characters
\* before the cut, and with a fence across the cut
AiLongTexts ==
  {Rep("a", SANITIZE_MAX_LENGTH + 5),
   <<BackTick, "U0000", BackTick, BackTick, "U007F">> \o Rep("a", SANITIZE_MAX_LENGTH),
   Rep("a", SANITIZE_MAX_LENGTH - 2) \o <<"U000A", BackTick, BackTick, BackTick, BackTick>>}

\* Excerpts of pages that write the prompt's delimiter lines themselves,
\* with hyphens or with code fences
AiDelimiterTexts ==
  {<<"a", " ">> \o S_endContent \o <<" ", "b">>,
   S_beginContent,
   Rep(BackTick, 3) \o <<"E", "N", "D", " ", "C", "O", "N", "T", "E", "N", "T">> \o Rep(BackTick, 3)}

AiContents ==
  {JsString(x) : x \in SeqsUpTo(AiChars, MaxTextLen) \cup AiLongTexts \cup AiDelimiterTexts}
  \cup {JsUndefined, JsNull, JsNumber}

AiKeywordItems ==
  {JsString(KW_AI),
   JsString(<<" ", "a", "-", "b", "!", "U000A">>),
   JsString(<<"!", BackTick>>),
   JsString(<<"U4E2D", "U6587", "}", "_", "1">>),
   JsString(Rep("k", KEYWORD_LENGTH_LIMIT - 1)),
   JsString(Rep("k", KEYWORD_LENGTH_LIMIT) \o <<"!">>),
   JsNumber}

AiKeywordInputs ==
  {JsArray(x) : x \in SeqsUpTo(AiKeywordItems, MaxKeywords)}
  \cup {JsUndefined, JsString(KW_AI)}

AiFieldValues(strings) ==
  {JsString(x) : x \in strings} \cup {JsUndefined, JsNull, JsNumber}

AiReplies ==
  {Reply("reject", NoObject), Reply("nomatch", NoObject), Reply("badjson", NoObject)}
  \cup {Reply("object", Analysis(sm, tl, cat)) :
          sm \in AiFieldValues({<<>>, <<"s">>, Rep("s", SUMMARY_MAX_LENGTH),
                                Rep("s", SUMMARY_MAX_LENGTH + 1)}),
          tl \in AiFieldValues({S_LOW, S_MEDIUM, S_HIGH, S_CRITICAL, S_UNKNOWN,
                                <<"l", "o", "w">>, <<>>}),
          cat \in {JsString(<<"c">>), JsUndefined}}

AiDefaultContent == JsString(<<"a", BackTick>>)

AiDefaultKeywords == JsArray(<<JsString(KW_AI)>>)

AiInputs ==
  {<<c, AiDefaultKeywords>> : c \in AiContents}
  \cup {<<AiDefaultContent, k>> : k \in AiKeywordInputs}

AiArg(content, keywords, reply) ==
  [content |-> content, keywords |-> keywords, reply |-> reply]

AiRet(content, keywords, result) ==
  [sanitizedContent |-> content, sanitizedKeywords |-> keywords, result |-> result]

\* Every input against a few replies, and every reply against one input
AiBaseReplies ==
  {Reply("reject", NoObject), Reply("nomatch", NoObject), Reply("badjson", NoObject),
   Reply("object", Analysis(JsString(<<"s">>), JsString(S_LOW), JsString(<<"c">>)))}

AiCases ==
  {AiArg(i[1], i[2], r) : i \in AiInputs, r \in AiBaseReplies}
  \cup {AiArg(AiDefaultContent, AiDefaultKeywords, r) : r \in AiReplies}

InitAi ==
  /\ SchedIdle
  /\ fname = "analyzeSignal:call"
  /\ arg \in AiCases
  /\ ret = AiRet(<<>>, <<>>, NoObject)

\* analyzeSignal up to the await: the two sanitizers, the early return when
\* no keyword is left, otherwise the prompt handed to the summarizer
AiPrepare ==
  /\ fname = "analyzeSignal:call"
  /\ LET kws == sanitizeKeywords(arg.keywords)
     IN IF kws = <<>>
        THEN /\ fname' = "analyzeSignal:return"
             /\ ret' = AiRet(sanitizeInput(arg.content), kws, noKeywordResult)
        ELSE /\ fname' = "analyzeSignal:await"
             /\ ret' = AiRet(sanitizeInput(arg.content), kws, NoObject)
  /\ UNCHANGED <<arg, schedVars>>

\* The summarizer replies: the parse and the validation of the reply
AiReply ==
  /\ fname = "analyzeSignal:await"
  /\ fname' = "analyzeSignal:return"
  /\ ret' = [ret EXCEPT !.result = replyResult(arg.reply)]
  /\ UNCHANGED <<arg, schedVars>>

SpecAi == InitAi /\ [][AiPrepare \/ AiReply]_vars

(***************************************************************************)
(* checkForSignal on its own: the inputs, the await of scrape, then the    *)
(* comparison of the fingerprints, the keyword filter and the excerpt      *)
(***************************************************************************)

KW_Kw == <<"K", "w">>

KW_AB == <<"A", "B">>

KW_cd == <<"c", "d">>

\* The keyword as the pages write it
S_kW == <<"k", "W">>

\* A page with the keyword after pre characters and before post characters
Page(pre, post) == Rep("x", pre) \o S_kW \o Rep("y", post)

\* Words of one letter separated by single spaces, n characters in all
Words(n) == [i \in 1..n |-> IF i % 2 = 0 THEN " " ELSE "x"]

\* n occurrences of a word, each followed by gap characters
RECURSIVE Repeated(_, _, _)
Repeated(word, n, gap) ==
  IF n = 0 THEN <<>> ELSE word \o Rep("y", gap) \o Repeated(word, n - 1, gap)

\* The distances of the keyword from an end of the text, around the radius
CheckMargins ==
  {0, 1, CONTEXT_RADIUS - 1, CONTEXT_RADIUS, CONTEXT_RADIUS + 1, CONTEXT_RADIUS + 50}

\* A page whose excerpts together are longer than MAX_EXCERPT_LENGTH
PageLong ==
  Rep("x", CONTEXT_RADIUS + 50) \o Repeated(S_kW, 3, 2 * CONTEXT_RADIUS + 50)
  \o Repeated(<<"a", "b">>, 3, 2 * CONTEXT_RADIUS + 50)
  \o Repeated(<<"C", "D">>, 4, 2 * CONTEXT_RADIUS + 50)

\* Pages that hold U+0130 before the keyword
PagesDottedI ==
  {Rep(DottedI, 10) \o S_kW \o Rep("y", CONTEXT_RADIUS + 100),
   Rep(DottedI, CONTEXT_RADIUS - 50) \o S_kW \o Rep("y", 10),
   Rep(DottedI, CONTEXT_RADIUS + 1) \o S_kW}

ExcerptPages ==
  {Page(pre, post) : pre \in CheckMargins, post \in CheckMargins}
  \cup {Words(pre) \o S_kW \o Words(post) :
          pre \in {CONTEXT_RADIUS, CONTEXT_RADIUS + 1, CONTEXT_RADIUS + 2},
          post \in {CONTEXT_RADIUS, CONTEXT_RADIUS + 1, CONTEXT_RADIUS + 2}}
  \cup {Repeated(S_kW, n, gap) : n \in {2, 3, 4}, gap \in {0, 1, CONTEXT_RADIUS, 2 * CONTEXT_RADIUS + 50}}
  \cup {PageLong}
  \cup PagesDottedI

\* Short pages and the keyword lists they are filtered with
ShortPages ==
  {TextPlain, TextAi, <<"A", "I", " ", "a", "i">>, <<"U4E2D", "U6587", "a">>, <<>>}

ShortKeywords == {KW_AI, <<"a", "i">>, <<"O", "K">>, <<"z">>, <<"U4E2D">>}

\* Pages and keyword lists for the occurrence search: the empty keyword, a
\* keyword whose occurrences overlap or touch
LoopPages == {TextAi, <<>>, Rep("a", 9), Rep("x", CONTEXT_RADIUS + 5) \o Rep("a", 9)}

LoopKeywords == {<<<<>>>>, <<<<>>, KW_AI>>, <<<<"A", "a">>>>, <<<<"a">>, <<>>>>}

CheckArg(url, keywords, lastHash, resp) ==
  [url |-> url, keywords |-> keywords, lastHash |-> lastHash, resp |-> resp]

Ok200(text) == Response("response", 200, -1, text, <<>>)

\* The responses around the status and content-length tests
StatusCases ==
  {Response("response", st, cl, TextAi, <<>>) :
     st \in {200, 204, 299, 300, 304, 404, 500},
     cl \in {-1, 0, MAX_CONTENT_LENGTH, MAX_CONTENT_LENGTH + 1}}
  \cup {Response("reject", 0, -1, <<>>, <<>>)}

CheckCases ==
  {CheckArg(UrlGood, ks, Null, Ok200(t)) : t \in ShortPages, ks \in SeqsUpTo(ShortKeywords, 2)}
  \cup {CheckArg(UrlGood, ks, Null, Ok200(t)) :
          t \in ExcerptPages, ks \in {<<KW_Kw>>, <<<<"z">>, KW_Kw, KW_AB, KW_cd>>}}
  \cup {CheckArg(UrlGood, ks, Null, Ok200(t)) : t \in LoopPages, ks \in LoopKeywords}
  \cup {CheckArg(u, <<KW_AI>>, Null, r) : u \in {UrlGood, UrlBlocked}, r \in StatusCases}
  \cup {CheckArg(UrlGood, <<KW_AI>>, sha256(trim(collapseWhitespace(t))), Ok200(t)) :
          t \in {TextPlain, TextAi}}

CheckRet(s, excerpts, result) == [s |-> s, excerpts |-> excerpts, result |-> result]

InitCheck ==
  /\ SchedIdle
  /\ fname = "checkForSignal:call"
  /\ arg \in CheckCases
  /\ ret = CheckRet(ScrapeThrow({}, ""), <<>>, NoResult)

\* "await scrape(url)": scrape returns the text and its fingerprint, or it
\* throws and checkForSignal rejects with the same error
CheckScrape ==
  /\ fname = "checkForSignal:call"
  /\ LET s == scrape(arg.url, arg.resp)
     IN IF s.ok
        THEN /\ fname' = "checkForSignal:scraped"
             /\ ret' = CheckRet(s, <<>>, NoResult)
        ELSE /\ fname' = "checkForSignal:return"
             /\ ret' = CheckRet(s, <<>>, checkScraped(s, arg.keywords, arg.lastHash))
  /\ UNCHANGED <<arg, schedVars>>

\* The rest of checkForSignal; excerpts is the array extractRelevantContent
\* joins when a keyword matched
CheckFinish ==
  /\ fname = "checkForSignal:scraped"
  /\ fname' = "checkForSignal:return"
  /\ LET r == checkScraped(ret.s, arg.keywords, arg.lastHash)
     IN ret' = CheckRet(ret.s, allExcerpts(ret.s.text, r.matches), r)
  /\ UNCHANGED <<arg, schedVars>>

SpecCheck == InitCheck /\ [][CheckScrape \/ CheckFinish]_vars

(***************************************************************************)
(* routes/stream.js: the SSE connection and the start, stop and scan       *)
(* requests                                                                *)
(***************************************************************************)

\* '00000000-0000-0000-0000-000000000001'
DEMO_USER_ID == "demo"

Users == {"u1", "u2", DEMO_USER_ID}

\* A field the request does not carry
Absent == "absent"

\* What a request carries: req.session.sentinelId, the x-user-id header and
\* the userId query parameter
Requester(session, header, query) ==
  [session |-> session, header |-> header, query |-> query]

\* The requests tried: u1 logged in; u2 logged in and naming u1 in the
\* header; nobody logged in and u1 named in the header, in the query, or
\* nobody named
Requesters ==
  {Requester("u1", Absent, Absent),
   Requester("u2", "u1", Absent),
   Requester(Absent, "u1", Absent),
   Requester(Absent, Absent, "u1"),
   Requester(Absent, Absent, Absent)}

StreamRequests == 3

\* req.session?.sentinelId || req.headers['x-user-id'] || req.query.userId
\* || DEMO_USER_ID
connectUserId(r) ==
  IF r.session # Absent THEN r.session
  ELSE IF r.header # Absent THEN r.header
  ELSE IF r.query # Absent THEN r.query
  ELSE DEMO_USER_ID

\* req.session?.sentinelId || req.headers['x-user-id'] || DEMO_USER_ID
routeUserId(r) ==
  IF r.session # Absent THEN r.session
  ELSE IF r.header # Absent THEN r.header
  ELSE DEMO_USER_ID

Handled(route, r, u, status) ==
  [route |-> route, session |-> r.session, header |-> r.header, query |-> r.query,
   userId |-> u, status |-> status]

\* stopMonitoring(userId) up to its await; the caller goes on, or waits for
\* the call to return
stopInvoked(u) ==
  /\ stopSync(u)
  /\ calls' = Append(calls, Call("stop", u, IF has(u) THEN "grace" ELSE "returned", 0))

\* A request handler, a 'close' event or a timer callback begins only when
\* no continuation is queued: a startMonitoring call whose await found no
\* session to stop resumes before the next event is taken
NothingQueued == \A c \in 1..Len(calls) : calls[c].pc # "resume"

\* What /connect creates for a connection: the cleanup object with the
\* handles of its three timers (set by the end of the handler), and of res
\* and req whether res.end() was called and whether 'close' was emitted
NewConnection(u) ==
  [userId |-> u, isCleanedUp |-> FALSE, noiseInterval |-> "scheduled",
   heartbeatInterval |-> "scheduled", connectionTimeout |-> "scheduled",
   writableEnded |-> FALSE, closed |-> FALSE]

\* performCleanup without the isCleanedUp test: every call runs the cleanup
performCleanupEveryCall(c) ==
  [ran |-> TRUE,
   cleanup |-> [cleanups[c] EXCEPT !.isCleanedUp = TRUE, !.noiseInterval = "null",
                                   !.heartbeatInterval = "null",
                                   !.connectionTimeout = "null"]]

\* performCleanup of connection c: whether it ran (it returns at once when
\* the connection is cleaned up already) and the cleanup object it leaves;
\* when it ran it goes on to stopMonitoring(userId) and
\* connections.delete(userId)
performCleanup(c) ==
  IF cleanups[c].isCleanedUp THEN [ran |-> FALSE, cleanup |-> cleanups[c]]
  ELSE [ran |-> TRUE,
        cleanup |-> [cleanups[c] EXCEPT !.isCleanedUp = TRUE, !.noiseInterval = "null",
                                        !.heartbeatInterval = "null",
                                        !.connectionTimeout = "null"]]

\* StreamConnect without the cleanup of the connection already stored: the
\* new connection takes its place in the map and nothing else is done
StreamConnectKeepsPrevious(r) ==
  LET u == connectUserId(r)
  IN /\ NothingQueued
     /\ Len(requests) < StreamRequests
     /\ cleanups' = Append(cleanups, NewConnection(u))
     /\ connections' = [x \in (DOMAIN connections) \cup {u} |->
                          IF x = u THEN Len(cleanups) + 1 ELSE connections[x]]
     /\ requests' = Append(requests, Handled("connect", r, u, 200))
     /\ UNCHANGED <<sessions, timers, activeSessions, calls, procs, store, signalsTable,
                    fetched, started, budget, pureVars, apiVars>>

\* GET /connect: the cleanup of the connection already stored for the user
\* id (it stops the monitoring), then the new connection in its place
StreamConnect(r) ==
  LET u == connectUserId(r)
  IN /\ NothingQueued
     /\ Len(requests) < StreamRequests
     /\ IF u \in DOMAIN connections
        THEN /\ IF performCleanup(connections[u]).ran THEN stopInvoked(u)
                ELSE UNCHANGED <<sessions, timers, activeSessions, calls>>
             /\ cleanups' = Append([cleanups EXCEPT ![connections[u]] =
                                      performCleanup(connections[u]).cleanup],
                                   NewConnection(u))
        ELSE /\ cleanups' = Append(cleanups, NewConnection(u))
             /\ UNCHANGED <<sessions, timers, activeSessions, calls>>
     /\ connections' = [x \in (DOMAIN connections) \cup {u} |->
                          IF x = u THEN Len(cleanups) + 1 ELSE connections[x]]
     /\ requests' = Append(requests, Handled("connect", r, u, 200))
     /\ UNCHANGED <<procs, store, signalsTable, fetched, started, budget, pureVars, apiVars>>

\* The 2-hour timeout of connection c: the status event, then res.end()
StreamTimeout(c) ==
  /\ NothingQueued
  /\ cleanups[c].connectionTimeout = "scheduled"
  /\ cleanups' = [cleanups EXCEPT ![c].connectionTimeout = "fired",
                                  ![c].writableEnded = TRUE]
  /\ UNCHANGED <<activeSessions, sessions, timers, calls, procs, store, signalsTable,
                 fetched, started, budget, connections, requests, pureVars, apiVars>>

\* req.on('close', performCleanup): the request of connection c is closed,
\* by the client or after res.end()
StreamClose(c) ==
  /\ NothingQueued
  /\ ~cleanups[c].closed
  /\ cleanups' = [cleanups EXCEPT ![c] = [performCleanup(c).cleanup EXCEPT !.closed = TRUE]]
  /\ IF performCleanup(c).ran
     THEN /\ stopInvoked(cleanups[c].userId)
          /\ connections' = [x \in (DOMAIN connections) \ {cleanups[c].userId} |->
                               connections[x]]
     ELSE UNCHANGED <<sessions, timers, activeSessions, calls, connections>>
  /\ UNCHANGED <<requests, procs, store, signalsTable, fetched, started, budget, pureVars, apiVars>>

\* StreamStart without the test of the connection: startMonitoring is
\* called whether or not a connection is stored for the user id
StreamStartUnchecked(r) ==
  LET u == routeUserId(r)
  IN /\ NothingQueued
     /\ Len(requests) < StreamRequests
     /\ requests' = Append(requests, Handled("start", r, u,
                                             IF u \in DOMAIN connections THEN 200 ELSE 400))
     /\ stopSync(u)
     /\ calls' = Append(calls, [Call("start", u, IF has(u) THEN "grace" ELSE "resume", 0)
                                  EXCEPT !.conn = IF u \in DOMAIN connections
                                                  THEN connections[u] ELSE 0])
     /\ UNCHANGED <<connections, cleanups, procs, store, signalsTable, fetched, started,
                    budget, pureVars, apiVars>>

\* POST /start up to the await inside startMonitoring
StreamStart(r) ==
  LET u == routeUserId(r)
  IN /\ NothingQueued
     /\ Len(requests) < StreamRequests
     /\ IF u \notin DOMAIN connections
        THEN /\ requests' = Append(requests, Handled("start", r, u, 400))
             /\ UNCHANGED <<sessions, timers, activeSessions, calls>>
        ELSE /\ requests' = Append(requests, Handled("start", r, u, 200))
             /\ stopSync(u)
             /\ calls' = Append(calls, [Call("start", u, IF has(u) THEN "grace" ELSE "resume", 0)
                                          EXCEPT !.conn = connections[u]])
     /\ UNCHANGED <<connections, cleanups, procs, store, signalsTable, fetched, started,
                    budget, pureVars, apiVars>>

\* POST /stop up to the await inside stopMonitoring
StreamStop(r) ==
  LET u == routeUserId(r)
  IN /\ NothingQueued
     /\ Len(requests) < StreamRequests
     /\ requests' = Append(requests, Handled("stop", r, u, 200))
     /\ stopInvoked(u)
     /\ UNCHANGED <<connections, cleanups, procs, store, signalsTable, fetched, started,
                    budget, pureVars, apiVars>>

\* POST /scan: the answer, then forceScan up to its first await
StreamScan(r) ==
  LET u == routeUserId(r)
  IN /\ NothingQueued
     /\ Len(requests) < StreamRequests
     /\ IF u \notin DOMAIN connections
        THEN /\ requests' = Append(requests, Handled("scan", r, u, 400))
             /\ procs' = procs
        ELSE /\ requests' = Append(requests, Handled("scan", r, u, 200))
             /\ procs' = Append(procs, NewProc("force", u, 0,
                                               <<E("noise_manual_initiated", 0, Null, "")>>))
     /\ UNCHANGED <<activeSessions, sessions, timers, calls, connections, cleanups, store,
                    signalsTable, fetched, started, budget, pureVars, apiVars>>

InitStream == SchedIdle /\ PureIdle

NextStream ==
  \/ \E r \in Requesters : StreamConnect(r)
  \/ \E c \in 1..Len(cleanups) : StreamTimeout(c)
  \/ \E c \in 1..Len(cleanups) : StreamClose(c)
  \/ \E r \in Requesters : StreamStart(r)
  \/ \E r \in Requesters : StreamStop(r)
  \/ \E r \in Requesters : StreamScan(r)
  \/ \E c \in 1..Len(calls) : StartResume(c)
  \/ \E c \in 1..Len(calls) : StopGraceEnd(c)

SpecStream == InitStream /\ [][NextStream]_vars

(***************************************************************************)
(* Properties                                                              *)
(***************************************************************************)

\* The entries of a run's trace of the kinds K that concern target tid
LogIdx(pr, K, tid) == {e \in 1..Len(pr.log) : pr.log[e].k \in K /\ pr.log[e].t = tid}

Count(pr, K, tid) == Cardinality(LogIdx(pr, K, tid))

\* The events that end the scan of one target
Outcomes == {"signal", "noise_updated", "noise_nochange", "noise_complete", "noise_error"}

\* The run has left the try/catch of its j-th target
Finished(pr, j) ==
  /\ j <= Len(pr.targets)
  /\ \/ j < pr.i
     \/ j = pr.i /\ pr.pc \in {"pause", "done"}

\* How the page of target tid was classified in this run; "blocked" when no
\* request was issued for it
Class(pr, tid) ==
  IF LogIdx(pr, {"fetch"}, tid) = {} THEN "blocked"
  ELSE pr.log[CHOOSE e \in LogIdx(pr, {"fetch"}, tid) : TRUE].m

CallOk(pr, k, tid) == \E e \in LogIdx(pr, {k}, tid) : pr.log[e].m = "ok"

CallFailed(pr, k, tid) == \E e \in LogIdx(pr, {k}, tid) : pr.log[e].m = "failed"

\* C1: under any interleaving of start and stop calls for an owner, calls
\* made during another call's grace wait included, at most one session of the
\* owner is live, at most one of the owner's interval timers is uncancelled,
\* and every uncancelled timer is the timer of the session that the registry
\* holds for its owner.
C1_OneSessionOneTimerPerOwner ==
  \A u \in Owners :
    /\ Cardinality({s \in 1..Len(sessions) :
                      sessions[s].userId = u /\ sessions[s].isRunning}) <= 1
    /\ Cardinality({t \in timers : sessions[t].userId = u}) <= 1
    /\ \A t \in timers :
         sessions[t].userId = u =>
           /\ has(u)
           /\ activeSessions[u] = t
           /\ sessions[t].interval = t
           /\ sessions[t].isRunning

\* A restart whose grace wait was overtaken: a later start created the
\* second session, and the earlier call returned that session's id
C1_Witness ==
  \E c1, c2 \in 1..Len(calls) :
    /\ c1 < c2
    /\ calls[c1].op = "start" /\ calls[c2].op = "start"
    /\ calls[c1].pc = "returned" /\ calls[c2].pc = "returned"
    /\ calls[c1].ret = calls[c2].ret
    /\ Len(sessions) = 2
    /\ timers = {2}

\* The addresses a watch target can hold in the runs explored
StoredUrls == {UrlGood, UrlBlocked}

\* C2: no network request is ever issued for a URL that the guard rejects,
\* and a target whose stored URL the guard rejects yields one error line per
\* scan and no request.
C2_NoRequestForRejectedUrl ==
  /\ \A u \in StoredUrls : ~validateUrl(u).ok => Href(u) \notin fetched
  /\ \A p \in 1..Len(procs) : \A j \in 1..Len(procs[p].targets) :
       (Finished(procs[p], j) /\ ~validateUrl(procs[p].targets[j].url).ok) =>
         /\ Count(procs[p], {"fetch"}, procs[p].targets[j].id) = 0
         /\ Count(procs[p], {"noise_error"}, procs[p].targets[j].id) = 1

\* The octets of the blocked IPv4 addresses
BlockedOctets(o) ==
  \/ o[1] = 10
  \/ o[1] = 172 /\ o[2] >= 16 /\ o[2] <= 31
  \/ o[1] = 192 /\ o[2] = 168
  \/ o[1] = 169 /\ o[2] = 254
  \/ o[1] = 127
  \/ o = <<0, 0, 0, 0>>

BlockedNames == {S_localhost, S_v6loopBr, S_metaGoogle, S_metaGke, S_kube}

\* C3: for an http or https URL, validateUrl rejects an IPv4 host a.b.c.d
\* exactly when a = 10, or a = 172 and 16 <= b <= 31, or a = 192 and b = 168,
\* or a = 169 and b = 254, or a = 127, or the address is 0.0.0.0; it rejects
\* localhost, ::1 and the three metadata hosts; it accepts every other host
\* and returns the href.
C3_GuardRejectsExactlyBlockedHosts ==
  (fname = "validateUrl:return" /\ arg.parses /\ arg.protocol \in {S_http, S_https}) =>
    /\ arg.host.kind = "ipv4" => (~ret.ok <=> BlockedOctets(arg.host.o))
    /\ arg.host.kind = "name" => (~ret.ok <=> toLowerCase(arg.host.n) \in BlockedNames)
    /\ ret.ok => ret.href = arg.protocol \o <<"/", "/">> \o
                            toLowerCase(UrlHostname(arg.host)) \o arg.path

\* The last address of 172.16-31 is rejected and the first one after it passes
C3_Witness ==
  /\ fname = "validateUrl:return"
  /\ arg.parses
  /\ arg.host.kind = "ipv4"
  /\ arg.host.o = <<172, 31, 255, 255>>
  /\ ~ret.ok

\* A run with targets loaded that has ended went through its whole list: one
\* outcome per target, and the closing line of a normal end
CompletedNormally(pr) ==
  /\ \A j \in 1..Len(pr.targets) : Count(pr, Outcomes, pr.targets[j].id) = 1
  /\ pr.log[Len(pr.log)].k = (IF pr.kind = "tick" THEN "noise_periodic"
                              ELSE "noise_manual_complete")

C4_State ==
  \A p \in 1..Len(procs) : \A j \in 1..Len(procs[p].targets) :
    LET pr == procs[p]
        tid == pr.targets[j].id
    IN /\ Count(pr, {"noise_error"}, tid) <= 1
       /\ (\/ Class(pr, tid) = "error"
           \/ CallFailed(pr, "updateLastCheck", tid)
           \/ CallFailed(pr, "createSignal", tid)
           \/ Finished(pr, j) /\ Class(pr, tid) = "blocked")
            => Count(pr, {"noise_error"}, tid) = 1
       /\ Count(pr, {"noise_system_error", "noise_scan_failed"}, 0) = 0
       /\ pr.pc = "done" => CompletedNormally(pr)

C4_Step ==
  (\E p \in 1..Len(procs) : procs'[p] # procs[p]) =>
     UNCHANGED <<activeSessions, sessions, timers>>

\* C4: an error raised while fetching, analysing or persisting one target
\* writes one error line for that target; the run goes on to every remaining
\* target and ends normally, nothing is thrown out of it, and no step of a
\* run stops the owner's session.
C4_TargetErrorContained == []C4_State /\ [][C4_Step]_vars

\* A run over two targets that ended normally after the first one failed
C4_Witness ==
  \E p \in 1..Len(procs) :
    /\ procs[p].pc = "done"
    /\ Len(procs[p].targets) = 2
    /\ Count(procs[p], {"noise_error"}, procs[p].targets[1].id) = 1
    /\ Count(procs[p], Outcomes \ {"noise_error"}, procs[p].targets[2].id) = 1

\* C5: in a recurring tick every scanned target yields exactly one outcome
\* event: a signal event iff a keyword matched and the signal was persisted,
\* a "content updated" line iff the fingerprint changed without a match, a
\* "no change" line iff it did not change, an error line iff a step failed;
\* a signal event and a "content updated" line never come together.
C5_OneOutcomePerTarget ==
  \A p \in 1..Len(procs) : \A j \in 1..Len(procs[p].targets) :
    LET pr == procs[p]
        tid == pr.targets[j].id
        sig == Count(pr, {"signal"}, tid)
        upd == Count(pr, {"noise_updated"}, tid)
        nc == Count(pr, {"noise_nochange"}, tid)
        err == Count(pr, {"noise_error"}, tid)
        stored == CallOk(pr, "updateLastCheck", tid)
    IN pr.kind = "tick" =>
         /\ ~(sig >= 1 /\ upd >= 1)
         /\ ~Finished(pr, j) => sig + upd + nc + err = 0
         /\ Finished(pr, j) =>
              /\ sig + upd + nc + err = 1
              /\ sig = 1 <=> (Class(pr, tid) = "matched" /\ CallOk(pr, "createSignal", tid))
              /\ upd = 1 <=> (Class(pr, tid) = "changed" /\ stored)
              /\ nc = 1 <=> (Class(pr, tid) = "unchanged" /\ stored)
              /\ err = 1 <=> \/ Class(pr, tid) \in {"blocked", "error"}
                             \/ CallFailed(pr, "updateLastCheck", tid)
                             \/ CallFailed(pr, "createSignal", tid)

\* A tick that went over two targets: a signal for one, a noise line for the
\* other
C5_Witness ==
  \E p \in 1..Len(procs) :
    /\ procs[p].kind = "tick"
    /\ procs[p].pc = "done"
    /\ Len(procs[p].targets) = 2
    /\ Count(procs[p], {"signal"}, procs[p].targets[1].id) = 1
    /\ Count(procs[p], {"noise_updated", "noise_nochange"}, procs[p].targets[2].id) = 1

\* The storage calls made for a target whose page was fetched and analysed;
\* createSignal is expected once for a match when expected(pr, tid) holds
StorageCalls(pr, tid, expectCreate) ==
  LET U == LogIdx(pr, {"updateLastCheck"}, tid)
      C == LogIdx(pr, {"createSignal"}, tid)
      F == LogIdx(pr, {"fetch"}, tid)
  IN /\ Cardinality(U) = 1
     /\ \A e \in U, f \in F : pr.log[e].h = pr.log[f].h /\ f < e
     /\ \A e \in U, c \in C : e < c
     /\ Cardinality(C) = IF expectCreate THEN 1 ELSE 0

Analysed(pr, j) ==
  /\ Finished(pr, j)
  /\ Class(pr, pr.targets[j].id) \in {"unchanged", "changed", "matched"}

\* C6: for every target whose fetch and analysis succeed, storage receives
\* exactly one updateLastCheck call carrying the new fingerprint, before any
\* createSignal; createSignal is called exactly once when a keyword matched
\* and the updateLastCheck call returned, and not at all otherwise.
C6_StorageCallsPerTarget ==
  \A p \in 1..Len(procs) : \A j \in 1..Len(procs[p].targets) :
    Analysed(procs[p], j) =>
      StorageCalls(procs[p], procs[p].targets[j].id,
                   /\ Class(procs[p], procs[p].targets[j].id) = "matched"
                   /\ CallOk(procs[p], "updateLastCheck", procs[p].targets[j].id))

\* C6 as stated: createSignal is called exactly once whenever a keyword
\* matched
C6_CreateOnEveryMatch ==
  \A p \in 1..Len(procs) : \A j \in 1..Len(procs[p].targets) :
    Analysed(procs[p], j) =>
      StorageCalls(procs[p], procs[p].targets[j].id,
                   Class(procs[p], procs[p].targets[j].id) = "matched")

\* A matched target: the fingerprint written, then the signal created
C6_Witness ==
  \E p \in 1..Len(procs) : \E j \in 1..Len(procs[p].targets) :
    /\ Analysed(procs[p], j)
    /\ Class(procs[p], procs[p].targets[j].id) = "matched"
    /\ CallOk(procs[p], "updateLastCheck", procs[p].targets[j].id)
    /\ Count(procs[p], {"createSignal"}, procs[p].targets[j].id) = 1

\* The excerpts of the pages that hold the keyword
MatchedExcerpts ==
  {extractRelevantContent(substring0(trim(collapseWhitespace(t)), MAX_TEXT_LENGTH), <<KW_AI>>) :
     t \in {TextAi, TextAi2}}

\* C7: when a keyword matched (and the fingerprint was written),
\* signals.create is called whatever the summarizer did; when it returns, the
\* signal event follows and the row holds the target, the excerpt and the
\* matched keywords, the summarizer's outcome showing only in the ai_ fields.
C7_SignalRecordedWhateverAiDoes ==
  /\ \A p \in 1..Len(procs) : \A j \in 1..Len(procs[p].targets) :
       LET pr == procs[p]
           tid == pr.targets[j].id
       IN (/\ Finished(pr, j)
           /\ Class(pr, tid) = "matched"
           /\ CallOk(pr, "updateLastCheck", tid)) =>
            /\ Count(pr, {"createSignal"}, tid) = 1
            /\ CallOk(pr, "createSignal", tid) =>
                 /\ Count(pr, {"signal"}, tid) = 1
                 /\ \E r \in 1..Len(signalsTable) :
                      /\ signalsTable[r].target_id = tid
                      /\ signalsTable[r].user_id = pr.u
  /\ \A r \in 1..Len(signalsTable) :
       /\ signalsTable[r].matched_keywords = <<KW_AI>>
       /\ signalsTable[r].content \in MatchedExcerpts
       /\ signalsTable[r].source_url \in StoredUrls
       /\ signalsTable[r].ai_threat_level.t = "string"

\* A signal recorded although the call of the summarizer failed
C7_Witness ==
  \E p \in 1..Len(procs) : \E r \in 1..Len(signalsTable) :
    /\ Len(procs[p].targets) >= 1
    /\ Count(procs[p], {"signal"}, procs[p].targets[1].id) = 1
    /\ signalsTable[r].target_id = procs[p].targets[1].id
    /\ signalsTable[r].ai_summary = JsString(S_offline)
    /\ signalsTable[r].ai_threat_level = JsString(S_UNKNOWN)

\* The summarizer was called: a keyword was left after the sanitization
AiCalled == ret.sanitizedKeywords # <<>>

\* A reply that gives no well-formed analysis
Malformed(reply) ==
  \/ reply.kind \in {"nomatch", "badjson"}
  \/ /\ reply.kind = "object"
     /\ \/ reply.obj.summary.t # "string"
        \/ reply.obj.threat_level.t # "string"
        \/ reply.obj.category.t # "string"

\* C8: a malformed reply of the summarizer (no JSON object, JSON that does
\* not parse, fields missing or of the wrong type) always gives an analysis
\* whose threat_level is UNKNOWN.
C8_MalformedReplyIsUnknown ==
  (fname = "analyzeSignal:return" /\ AiCalled /\ Malformed(arg.reply)) =>
     ret.result.threat_level = JsString(S_UNKNOWN)

ThreatLevelEnum == {S_LOW, S_MEDIUM, S_HIGH, S_CRITICAL, S_UNKNOWN}

\* C9: whatever the summarizer replies, the analysis has a threat_level of
\* LOW, MEDIUM, HIGH, CRITICAL or UNKNOWN, any other replied value becoming
\* UNKNOWN, and a string summary of at most 100 characters, a longer replied
\* summary being cut to its first 100 characters.
C9_ThreatLevelAndSummaryBounded ==
  fname = "analyzeSignal:return" =>
    /\ ret.result.threat_level.t = "string"
    /\ ret.result.threat_level.v \in ThreatLevelEnum
    /\ ret.result.summary.t = "string"
    /\ Len(ret.result.summary.v) <= 100
    /\ (AiCalled /\ arg.reply.kind = "object") =>
         /\ ~(/\ arg.reply.obj.threat_level.t = "string"
              /\ arg.reply.obj.threat_level.v \in ThreatLevelEnum)
              => ret.result.threat_level.v = S_UNKNOWN
         /\ (/\ arg.reply.obj.summary.t = "string"
             /\ Len(arg.reply.obj.summary.v) > 100)
              => ret.result.summary.v = SubSeq(arg.reply.obj.summary.v, 1, 100)

\* A reply with a lower-case level and a summary of 101 characters
C9_Witness ==
  /\ fname = "analyzeSignal:return"
  /\ AiCalled
  /\ arg.reply.kind = "object"
  /\ arg.reply.obj.threat_level = JsString(<<"l", "o", "w">>)
  /\ arg.reply.obj.summary.t = "string"
  /\ Len(arg.reply.obj.summary.v) = 101
  /\ ret.result.threat_level = JsString(S_UNKNOWN)
  /\ Len(ret.result.summary.v) = 100

\* The strictly increasing maps from the kept keywords to the given items
KeptFrom(out, in) ==
  {f \in [1..Len(out) -> 1..Len(in)] :
     /\ \A i, j \in 1..Len(out) : i < j => f[i] < f[j]
     /\ \A i \in 1..Len(out) : in[f[i]].t = "string" /\ out[i] = cleanKeyword(in[f[i]].v)}

\* C10: the text handed to the summarizer holds no control character and no
\* run of three backticks and is at most 2000 characters long; every keyword
\* handed over is non-empty, shorter than 50 characters, made of word
\* characters, whitespace, hyphens and CJK ideographs, and the keywords keep
\* their order; an excerpt that is not a string becomes the empty string and
\* a keyword list that is not an array the empty list.
C10_SanitizedPrompt ==
  fname \in {"analyzeSignal:await", "analyzeSignal:return"} =>
    LET text == ret.sanitizedContent
        kws == ret.sanitizedKeywords
    IN /\ \A i \in 1..Len(text) : ~IsControl(text[i])
       /\ \A i \in 1..(Len(text) - 2) :
            ~(text[i] = BackTick /\ text[i + 1] = BackTick /\ text[i + 2] = BackTick)
       /\ Len(text) <= 2000
       /\ \A k \in 1..Len(kws) :
            /\ Len(kws[k]) > 0
            /\ Len(kws[k]) < 50
            /\ \A i \in 1..Len(kws[k]) :
                 \/ IsWord(kws[k][i])
                 \/ IsSpace(kws[k][i])
                 \/ kws[k][i] = "-"
                 \/ IsCJK(kws[k][i])
       /\ arg.keywords.t = "array" => KeptFrom(kws, arg.keywords.v) # {}
       /\ arg.content.t # "string" => text = <<>>
       /\ arg.keywords.t # "array" => kws = <<>>

\* An excerpt in which a control character splits a run of three backticks
C10_Witness ==
  /\ fname = "analyzeSignal:await"
  /\ arg.content = JsString(<<BackTick, "U0000", BackTick, BackTick>>)
  /\ ret.sanitizedContent = <<"-", "-", "-">>

\* Every call made so far has returned
AllReturned == \A c \in 1..Len(calls) : calls[c].pc = "returned"

CallsOf(u) == {c \in 1..Len(calls) : calls[c].u = u}

\* The call invoked last for owner u
LastCallOf(u) == calls[CHOOSE c \in CallsOf(u) : \A d \in CallsOf(u) : d <= c]

\* C11: once all start / stop calls for an owner have returned, the registry
\* is as if the calls had been applied one at a time in the order they were
\* invoked: the owner has a live session exactly when the last call was a
\* start, and after a last stop no session of the owner runs and no timer
\* of the owner is set.
C11_CallsSerialized ==
  \A u \in Owners :
    (AllReturned /\ CallsOf(u) # {}) =>
       /\ has(u) <=> LastCallOf(u).op = "start"
       /\ LastCallOf(u).op = "stop" =>
            /\ {t \in timers : sessions[t].userId = u} = {}
            /\ {s \in 1..Len(sessions) : sessions[s].userId = u /\ sessions[s].isRunning} = {}

C12_Step ==
  \A p \in 1..Len(procs) :
    (/\ procs[p].kind = "tick"
     /\ procs[p].i >= 1
     /\ ~sessions[procs[p].sid].isRunning) => procs'[p].i = procs[p].i

\* C12: once the session of a tick has been stopped, the tick does not go
\* on to any target after the one in progress.
C12_TickStopsAfterCancel == [][C12_Step]_vars

\* The scan of a target is in progress: fetch, analysis or persistence
Scanning(pr) == pr.pc \in {"fetch", "update", "ai", "create"}

\* C13: at no instant are two target scans of the same owner in progress.
C13_OneScanPerOwner ==
  \A u \in Owners :
    Cardinality({p \in 1..Len(procs) : procs[p].u = u /\ Scanning(procs[p])}) <= 1

\* The signal events of run p, as <<target, fingerprint>>
SignalsOf(p) ==
  {<<procs[p].log[e].t, procs[p].log[e].h>> :
     e \in {x \in 1..Len(procs[p].log) : procs[p].log[x].k = "signal"}}

\* C14: within one recurring session, one content version of a target gives
\* at most one signal: no two ticks of the session emit a signal for the
\* same target and fingerprint.
C14_OneSignalPerVersion ==
  \A p, q \in 1..Len(procs) :
    (/\ p < q
     /\ procs[p].kind = "tick" /\ procs[q].kind = "tick"
     /\ procs[p].sid = procs[q].sid) => SignalsOf(p) \cap SignalsOf(q) = {}

\* The step writes an outcome event of run p
EmitsOutcome(p) ==
  \E e \in (Len(procs[p].log) + 1)..Len(procs'[p].log) : procs'[p].log[e].k \in Outcomes

C15_Step ==
  \A p \in 1..Len(procs) :
    EmitsOutcome(p) =>
      \E n \in 1..Len(started) :
        /\ started[n] = <<p, procs[p].i>>
        /\ \A m \in 1..(n - 1) :
             procs[started[m][1]].u = procs[p].u =>
               Finished(procs[started[m][1]], started[m][2])

\* C15: for one owner the outcome events come in the order in which the
\* scans were started, and the outcome of a target never comes before its
\* scan has started: when an outcome is emitted its scan is on record, and
\* every scan of the owner started before it has had its outcome.
C15_OutcomesInScanOrder == [][C15_Step]_vars

C16_Step ==
  \A u \in Owners :
    (/\ Len(calls') = Len(calls) + 1
     /\ calls'[Len(calls')].op = "stop"
     /\ calls'[Len(calls')].u = u) =>
       /\ getStatus(u)' = [isActive |-> FALSE, sessionId |-> 0]
       /\ ~has(u) =>
            /\ UNCHANGED <<activeSessions, sessions, timers>>
            /\ calls'[Len(calls')].pc = "returned"

\* C16: a stop for an owner who has no session (as after a stop) changes
\* nothing - registry, sessions and timers are as before and the call returns
\* without waiting - and after any stop getStatus reports the owner inactive
\* with no session id.
C16_StopIdempotent == [][C16_Step]_vars

\* Two stops in a row after a session had been started
C16_Witness ==
  \E c \in 1..Len(calls) :
    /\ c + 1 <= Len(calls)
    /\ calls[c].op = "stop" /\ calls[c + 1].op = "stop"
    /\ calls[c + 1].pc = "returned"
    /\ Len(sessions) = 1
    /\ activeSessions = <<>>
    /\ timers = {}

C17_Step ==
  /\ Len(sessions') > Len(sessions) =>
       UNCHANGED <<procs, store, signalsTable, fetched, started>>
  /\ \A p \in (Len(procs) + 1)..Len(procs') :
       procs'[p].kind = "tick" =>
         /\ procs'[p].sid \in timers
         /\ UNCHANGED <<sessions, calls>>
         /\ procs'[p].pc = "load"
         /\ procs'[p].log = <<>>

\* C17: the step of start that creates a session starts no run, reads and
\* writes no storage, issues no request and emits no event; a run of the
\* session's callback begins only in a later step, when its timer fires.
C17_StartRunsNoScan == [][C17_Step]_vars

\* A session created and registered, its timer set, and nothing run yet
C17_Witness ==
  /\ Len(sessions) = 1
  /\ timers = {1}
  /\ has("u1")
  /\ \E c \in 1..Len(calls) : calls[c].op = "start" /\ calls[c].pc = "returned"
  /\ procs = <<>>
  /\ fetched = {}

\* C18: a tick whose load succeeded emits the generated noise exactly once,
\* as its last event; for an owner without active targets it is the tick's
\* only event and the tick makes no request and no storage write.
C18_PeriodicNoiseLast ==
  \A p \in 1..Len(procs) :
    LET pr == procs[p]
        n == Count(pr, {"noise_periodic"}, 0)
        loaded == pr.i >= 1 \/ (pr.pc = "done" /\ Count(pr, {"noise_system_error"}, 0) = 0)
    IN pr.kind = "tick" =>
         /\ pr.pc # "done" => n = 0
         /\ (pr.pc = "done" /\ loaded) =>
              /\ n = 1
              /\ pr.log[Len(pr.log)].k = "noise_periodic"
         /\ (pr.pc = "done" /\ loaded /\ pr.targets = <<>>) =>
              /\ pr.log = <<E("noise_periodic", 0, Null, "")>>
              /\ fetched = {}
              /\ signalsTable = <<>>

\* A finished tick of an owner without active targets
C18_Witness ==
  \E p \in 1..Len(procs) :
    /\ procs[p].kind = "tick"
    /\ procs[p].pc = "done"
    /\ procs[p].targets = <<>>
    /\ store = <<>>
    /\ procs[p].log = <<E("noise_periodic", 0, Null, "")>>

\* The step is one of forceScan: its call, or a step of one of its runs
ForceScanStep ==
  \/ \E p \in (Len(procs) + 1)..Len(procs') : procs'[p].kind = "force"
  \/ \E p \in 1..Len(procs) : procs[p].kind = "force" /\ procs'[p] # procs[p]

\* C19: no step of forceScan adds, removes or replaces an entry of the
\* registry, changes a session or sets or clears a timer, whether or not the
\* owner has a session and whether the scan succeeds or fails.
C19_ForceScanKeepsRegistry ==
  [][ForceScanStep => UNCHANGED <<activeSessions, sessions, timers>>]_vars

\* A forceScan that ran to its end beside a live session
C19_Witness ==
  \E p \in 1..Len(procs) :
    /\ procs[p].kind = "force"
    /\ procs[p].pc = "done"
    /\ Len(procs[p].targets) >= 1
    /\ has(procs[p].u)
    /\ timers = {activeSessions[procs[p].u]}

\* The fingerprints of the pages whose text holds the keyword
KeywordPageHashes ==
  {sha256(substring0(trim(collapseWhitespace(t)), MAX_TEXT_LENGTH)) : t \in {TextAi, TextAi2}}

\* C20: forceScan goes once over the owner's targets, announcing each one
\* once and requesting it at most once (once unless the guard rejects it),
\* and never reports nor classifies a target as unchanged; a fetched target
\* whose text holds a keyword is classified as matched whatever fingerprint
\* is stored and, storage succeeding, gives one signal row and one signal
\* event.
C20_ForceScanIgnoresFingerprint ==
  \A p \in 1..Len(procs) : \A j \in 1..Len(procs[p].targets) :
    LET pr == procs[p]
        tid == pr.targets[j].id
    IN pr.kind = "force" =>
         /\ Count(pr, {"noise_scanning"}, tid) = (IF j <= pr.i THEN 1 ELSE 0)
         /\ Count(pr, {"fetch"}, tid) <= 1
         /\ Count(pr, {"noise_nochange"}, tid) = 0
         /\ Class(pr, tid) # "unchanged"
         /\ Finished(pr, j) =>
              /\ Count(pr, Outcomes, tid) = 1
              /\ validateUrl(pr.targets[j].url).ok => Count(pr, {"fetch"}, tid) = 1
              /\ (\E e \in LogIdx(pr, {"fetch"}, tid) : pr.log[e].h \in KeywordPageHashes)
                   => Class(pr, tid) = "matched"
              /\ (/\ Class(pr, tid) = "matched"
                  /\ CallOk(pr, "updateLastCheck", tid)
                  /\ CallOk(pr, "createSignal", tid)) =>
                   /\ Count(pr, {"signal"}, tid) = 1
                   /\ \E r \in 1..Len(signalsTable) : signalsTable[r].target_id = tid

\* A forced scan of a page identical to the last check that gave a signal
C20_Witness ==
  \E p \in 1..Len(procs) :
    /\ procs[p].kind = "force"
    /\ procs[p].pc = "done"
    /\ Len(procs[p].targets) = 1
    /\ procs[p].targets[1].last_hash # Null
    /\ \E e \in LogIdx(procs[p], {"fetch"}, procs[p].targets[1].id) :
         procs[p].log[e].h = procs[p].targets[1].last_hash
    /\ Count(procs[p], {"signal"}, procs[p].targets[1].id) = 1

\* C29: validateUrl applies its checks in the order parse, scheme, host and
\* reports the first one that fails: a string that does not parse gives the
\* invalid-URL error; a parsed URL whose scheme is neither http nor https
\* gives the protocol error whatever its host; among the host checks the
\* localhost aliases come before the octet ranges, so 127.0.0.1 gives the
\* localhost error and every other 127.x.x.x address the loopback error.
C29_FirstFailingCheckReported ==
  fname = "validateUrl:return" =>
    /\ ~arg.parses => ret = Throw("Invalid URL format")
    /\ (arg.parses /\ arg.protocol \notin {S_http, S_https})
         => ret = Throw("Only HTTP/HTTPS protocols allowed")
    /\ (arg.parses /\ arg.protocol \in {S_http, S_https}) =>
         /\ ret.error # "Invalid URL format"
         /\ ret.error # "Only HTTP/HTTPS protocols allowed"
         /\ (arg.host.kind = "ipv4" /\ arg.host.o \in {<<127, 0, 0, 1>>, <<0, 0, 0, 0>>})
              => ret = Throw("Access to localhost is not allowed")
         /\ (arg.host.kind = "ipv4" /\ arg.host.o[1] = 127 /\ arg.host.o # <<127, 0, 0, 1>>)
              => ret = Throw("Access to loopback IP is not allowed")
         /\ (arg.host.kind = "name" /\ toLowerCase(arg.host.n) = S_localhost)
              => ret = Throw("Access to localhost is not allowed")

\* An ftp URL whose host is 127.0.0.1 was refused for its scheme
C29_Witness ==
  /\ fname = "validateUrl:return"
  /\ arg.parses
  /\ arg.protocol = S_ftp
  /\ arg.host = Ipv4Host(127, 0, 0, 1)
  /\ ret = Throw("Only HTTP/HTTPS protocols allowed")

\* C26: within one run of the interval callback or of forceScan a target is
\* requested at most once and its scan is begun at most once: after a fetch
\* that failed (timeout, content too large, HTTP error) the run writes the
\* target's error line and never requests that target again.
C26_NoRetryWithinRun ==
  \A p \in 1..Len(procs) : \A j \in 1..Len(procs[p].targets) :
    LET pr == procs[p]
        tid == pr.targets[j].id
    IN /\ Count(pr, {"fetch"}, tid) <= 1
       /\ Cardinality({n \in 1..Len(started) : started[n] = <<p, j>>}) <= 1
       /\ \A e \in LogIdx(pr, {"fetch"}, tid) :
            pr.log[e].m = "error" =>
              /\ Len(pr.log) > e => pr.log[e + 1] = E("noise_error", tid, Null, pr.log[e + 1].m)
              /\ \A f \in (e + 1)..Len(pr.log) :
                   pr.log[f].t = tid => pr.log[f].k = "noise_error"

\* A tick over two targets has ended; the request for its first target failed
\* and was made once
C26_Witness ==
  \E p \in 1..Len(procs) :
    /\ procs[p].kind = "tick"
    /\ procs[p].pc = "done"
    /\ Len(procs[p].targets) = 2
    /\ Class(procs[p], procs[p].targets[1].id) = "error"
    /\ Count(procs[p], {"fetch"}, procs[p].targets[1].id) = 1
    /\ Count(procs[p], {"fetch"}, procs[p].targets[2].id) = 1

\* The lines a run ends with: its closing line, or the line of its outer catch
ClosingLines == {"noise_periodic", "noise_manual_complete",
                 "noise_system_error", "noise_scan_failed"}

\* The collaborator failures met while scanning target tid
FailuresOn(pr, j) ==
  LET tid == pr.targets[j].id
  IN (IF Class(pr, tid) = "error" THEN 1 ELSE 0)
     + (IF Finished(pr, j) /\ Class(pr, tid) = "blocked" THEN 1 ELSE 0)
     + Cardinality({e \in LogIdx(pr, {"updateLastCheck", "createSignal"}, tid) :
                      pr.log[e].m = "failed"})

C28_State ==
  \A p \in 1..Len(procs) :
    LET pr == procs[p]
        outer == {e \in 1..Len(pr.log) : pr.log[e].k \in {"noise_system_error", "noise_scan_failed"}}
    IN /\ pr.pc = "done" => (Len(pr.log) > 0 /\ pr.log[Len(pr.log)].k \in ClosingLines)
       /\ Cardinality(outer) <= 1
       /\ outer # {} =>
            /\ pr.pc = "done"
            /\ pr.targets = <<>>
            /\ outer = {Len(pr.log)}
            /\ pr.log[Len(pr.log)] =
                 E(IF pr.kind = "tick" THEN "noise_system_error" ELSE "noise_scan_failed",
                   0, Null, "storage")
            /\ \A e \in 1..Len(pr.log) : pr.log[e].k \notin Outcomes
       /\ \A j \in 1..Len(pr.targets) :
            /\ FailuresOn(pr, j) <= 1
            /\ Finished(pr, j) => Count(pr, {"noise_error"}, pr.targets[j].id) = FailuresOn(pr, j)

C28_Step ==
  (\E p \in 1..Len(procs) : procs'[p] # procs[p]) =>
     /\ timers' = timers
     /\ \A sid \in timers : sessions'[sid] = sessions[sid]
     /\ \A u \in Owners : getStatus(u)' = getStatus(u)

\* C28: a run of the interval callback or of forceScan always comes to its
\* end by itself, whatever the storage, the fetch and the summarizer do: a
\* failed load of the targets gives one line of the outer catch and nothing
\* else, each collaborator failure on a target gives one error line for that
\* target, and no step of a run changes the owner's session or its timer.
C28_RunsNeverThrow == []C28_State /\ [][C28_Step]_vars

\* A tick whose load of the targets failed has ended with its one line, and
\* the session that started it is still registered with its timer set
C28_Witness ==
  \E p \in 1..Len(procs) :
    /\ procs[p].kind = "tick"
    /\ procs[p].pc = "done"
    /\ procs[p].log = <<E("noise_system_error", 0, Null, "storage")>>
    /\ has(procs[p].u)
    /\ activeSessions[procs[p].u] = procs[p].sid
    /\ procs[p].sid \in timers
    /\ sessions[procs[p].sid].isRunning

\* The scrapes in progress: the runs waiting for checkForSignal
ScrapesInProgress == {p \in 1..Len(procs) : procs[p].pc = "fetch"}

\* C21: the number of scrapes in progress at the same time, over all ticks
\* and force scans, never exceeds MAX_CONCURRENT_SCRAPES.
C21_ScrapesBounded == Cardinality(ScrapesInProgress) <= MAX_CONCURRENT_SCRAPES

\* The lower-cased keyword is a run of consecutive characters of the
\* lower-cased text
OccursIn(text, keyword) ==
  LET lt == toLowerCase(text)
      lk == toLowerCase(keyword)
  IN \E i \in 0..(Len(lt) - Len(lk)) : SubSeq(lt, i + 1, i + Len(lk)) = lk

\* The n-th smallest element of a set of numbers
Nth(S, n) == CHOOSE i \in S : Cardinality({j \in S : j < i}) = n - 1

\* C24: the keyword filter of checkForSignal returns exactly the keywords
\* that occur in the page text when case is ignored, in the order of the
\* keyword list and written as in the list; an empty list, or a text with
\* none of the keywords, gives the empty list.
C24_MatchesInListOrder ==
  (fname = "checkForSignal:return" /\ ret.s.ok /\ ret.result.changed) =>
    LET hits == {i \in 1..Len(arg.keywords) : OccursIn(ret.s.text, arg.keywords[i])}
        m == ret.result.matches
    IN /\ Len(m) = Cardinality(hits)
       /\ \A n \in 1..Len(m) : m[n] = arg.keywords[Nth(hits, n)]
       /\ (arg.keywords = <<>> \/ hits = {}) => m = <<>>

\* Of the keywords "OK" and "AI" the page "an Ai" holds the second only,
\* which is returned as the list writes it
C24_Witness ==
  /\ fname = "checkForSignal:return"
  /\ arg.keywords = <<<<"O", "K">>, KW_AI>>
  /\ ret.s.text = <<"a", "n", " ", "A", "i">>
  /\ ret.result.matches = <<KW_AI>>

\* checkForSignal rejected with msg before the body was read: no text, no
\* fingerprint and no match result came out of it
FailedUnread(msg) ==
  /\ ~ret.s.ok
  /\ ret.s.error = msg
  /\ ~ret.s.bodyRead
  /\ ret.s.text = <<>>
  /\ ret.s.hash = Null
  /\ ret.result = [ok |-> FALSE, requested |-> ret.s.requested, error |-> msg,
                   changed |-> FALSE, matches |-> <<>>, content |-> <<>>, hash |-> Null]
  /\ ret.excerpts = <<>>

\* C25: for a response whose status is not 2xx scrape throws the HTTP error,
\* and for a 2xx response whose content-length header is above
\* MAX_CONTENT_LENGTH it throws "Content too large"; in both cases the body
\* has not been read and checkForSignal gives no text, no fingerprint and no
\* match result.
C25_RejectedBeforeBodyRead ==
  (fname = "checkForSignal:return" /\ arg.resp.kind = "response" /\ validateUrl(arg.url).ok) =>
    /\ ~(arg.resp.status \in 200..299) => FailedUnread("HTTP error status")
    /\ (arg.resp.status \in 200..299 /\ arg.resp.contentLength > 500000)
         => FailedUnread("Content too large")

\* A 200 response that declares 500,001 bytes was refused
C25_Witness ==
  /\ fname = "checkForSignal:return"
  /\ arg.url = UrlGood
  /\ arg.resp.status = 200
  /\ arg.resp.contentLength = 500001
  /\ arg.resp.bodyText = TextAi
  /\ FailedUnread("Content too large")

HasLead(e) == Len(e) >= 3 /\ SubSeq(e, 1, 3) = Ellipsis

HasTrail(e) == Len(e) >= 3 /\ SubSeq(e, Len(e) - 2, Len(e)) = Ellipsis

\* An excerpt without the ellipses put around it (the pages hold no dot)
Strip(e) ==
  LET a == IF HasLead(e) THEN SubSeq(e, 4, Len(e)) ELSE e
  IN IF HasTrail(a) THEN SubSeq(a, 1, Len(a) - 3) ELSE a

\* The first position at or after from where the text holds the keyword,
\* case ignored; -1 when there is none
OccurrenceFrom(text, keyword, from) ==
  LET at == {q \in from..(Len(text) - Len(keyword)) :
               toLowerCase(SubSeq(text, q + 1, q + Len(keyword))) = toLowerCase(keyword)}
  IN IF at = {} THEN -1 ELSE CHOOSE q \in at : \A r \in at : q <= r

\* The first n occurrences of the keyword in the text, earliest first, each
\* looked for after the end of the one before
RECURSIVE Occurrences(_, _, _, _)
Occurrences(text, keyword, from, n) ==
  LET q == OccurrenceFrom(text, keyword, from)
  IN IF n = 0 \/ q = -1 THEN <<>>
     ELSE <<[kw |-> keyword, at |-> q]>> \o
          Occurrences(text, keyword, q + Len(keyword), n - 1)

\* The occurrences the excerpts are to come from: keyword after keyword
RECURSIVE AllOccurrences(_, _)
AllOccurrences(text, keywords) ==
  IF keywords = <<>> THEN <<>>
  ELSE Occurrences(text, Head(keywords), 0, MAX_OCCURRENCES) \o
       AllOccurrences(text, Tail(keywords))

\* body is a stretch of the text that holds the occurrence o and at most
\* CONTEXT_RADIUS characters on each side of it
WindowAround(body, text, o) ==
  \E a \in Max(0, o.at - CONTEXT_RADIUS)..o.at :
    /\ a + Len(body) >= o.at + Len(o.kw)
    /\ a + Len(body) <= Min(Len(text), o.at + Len(o.kw) + CONTEXT_RADIUS)
    /\ SubSeq(text, a + 1, a + Len(body)) = body

\* C22: the excerpt is at most 3,000 characters long and is put together
\* from at most 3 occurrences of each matched keyword, the earliest first and
\* keyword after keyword, each occurrence giving a stretch of the text that
\* holds the keyword and at most 200 characters on each side of it.
C22_ExcerptFromKeywordWindows ==
  (fname = "checkForSignal:return" /\ ret.result.matches # <<>>) =>
    LET occ == AllOccurrences(ret.s.text, ret.result.matches)
    IN /\ Len(ret.result.content) <= MAX_EXCERPT_LENGTH
       /\ ret.result.content =
            substring0(join(ret.excerpts, ExcerptSeparator), MAX_EXCERPT_LENGTH)
       /\ Len(ret.excerpts) = Len(occ)
       /\ \A n \in 1..Len(occ) : WindowAround(Strip(ret.excerpts[n]), ret.s.text, occ[n])

\* The positions at which the loop of extractRelevantContent finds the
\* lower-cased keyword in the lower-cased text
RECURSIVE FoundAt(_, _, _, _)
FoundAt(text, keyword, from, n) ==
  LET f == indexOf(toLowerCase(text), toLowerCase(keyword), from)
  IN IF n = 0 \/ f = -1 THEN <<>>
     ELSE <<[kw |-> keyword, at |-> f]>> \o FoundAt(text, keyword, f + Len(keyword), n - 1)

RECURSIVE AllFound(_, _)
AllFound(text, keywords) ==
  IF keywords = <<>> THEN <<>>
  ELSE FoundAt(text, Head(keywords), 0, MAX_OCCURRENCES) \o AllFound(text, Tail(keywords))

\* C23 as stated: the leading ellipsis is there exactly when the window of
\* 200 characters was cut short by the start of the text, the trailing one
\* exactly when it was cut short by the end of the text.
C23_EllipsisWhenWindowClipped ==
  (fname = "checkForSignal:return" /\ ret.result.matches # <<>>) =>
    LET found == AllFound(ret.s.text, ret.result.matches)
    IN \A n \in 1..Len(ret.excerpts) :
         /\ HasLead(ret.excerpts[n]) <=> found[n].at - CONTEXT_RADIUS < 0
         /\ HasTrail(ret.excerpts[n]) <=>
              found[n].at + Len(found[n].kw) + CONTEXT_RADIUS > Len(ret.s.text)

\* C23: in the excerpt of an occurrence found at index i the leading
\* ellipsis is there exactly when text was left out before the window
\* (i > 200) and the trailing one exactly when text was left out after it
\* (i + keyword length + 200 < text length); on a side where the window
\* reaches the start or the end of the text there is no ellipsis.
C23_EllipsisWhereTextLeftOut ==
  (fname = "checkForSignal:return" /\ ret.result.matches # <<>>) =>
    LET found == AllFound(ret.s.text, ret.result.matches)
    IN /\ Len(ret.excerpts) = Len(found)
       /\ \A n \in 1..Len(ret.excerpts) :
            /\ HasLead(ret.excerpts[n]) <=> found[n].at > CONTEXT_RADIUS
            /\ HasTrail(ret.excerpts[n]) <=>
                 found[n].at + Len(found[n].kw) + CONTEXT_RADIUS < Len(ret.s.text)

\* The keyword opens a page that goes on for 250 characters: the excerpt
\* starts with the keyword and ends with an ellipsis
C23_Witness ==
  /\ fname = "checkForSignal:return"
  /\ ret.s.text = Page(0, CONTEXT_RADIUS + 50)
  /\ ret.result.matches = <<KW_Kw>>
  /\ ret.excerpts = <<S_kW \o Rep("y", CONTEXT_RADIUS) \o Ellipsis>>

\* C27: whatever targets are created and edited through the management API,
\* every stored target has at least one keyword.
C27_KeywordsNeverEmpty == \A id \in TargetIds : store[id].keywords # <<>>

C30_Step ==
  Len(requests') = Len(requests) + 1 =>
    LET r == requests'[Len(requests')]
    IN \A v \in Users \ {DEMO_USER_ID} :
         v # r.session =>
           /\ (v \in DOMAIN connections') = (v \in DOMAIN connections)
           /\ v \in DOMAIN connections => connections'[v] = connections[v]
           /\ getStatus(v)' = getStatus(v)
           /\ {c \in 1..Len(calls') : calls'[c].u = v} = {c \in 1..Len(calls) : calls[c].u = v}
           /\ {p \in 1..Len(procs') : procs'[p].u = v} = {p \in 1..Len(procs) : procs[p].u = v}

\* C30: a connect, start, stop or scan request acts only on the connection
\* and the monitoring of the user its authenticated session names; it leaves
\* every other user's connection, session, calls and scans as they were, so
\* a request without an authenticated session changes nothing of any user.
C30_RequestsActOnOwnUser == [][C30_Step]_vars

C36_Step ==
  Len(requests') = Len(requests) + 1 =>
    LET r == requests'[Len(requests')]
    IN (r.route \in {"start", "scan"} /\ r.userId \notin DOMAIN connections) =>
         /\ r.status = 400
         /\ UNCHANGED <<activeSessions, sessions, timers, calls, procs, connections,
                        cleanups, store, signalsTable, fetched, started>>

\* C36: a start or scan request for a user id with no registered SSE
\* connection is answered 400 and changes nothing: no session is created or
\* stopped, no timer set or cleared, no call of startMonitoring,
\* stopMonitoring or forceScan made, no scan begun.
C36_NoConnectionNoEffect == [][C36_Step]_vars

\* A start and a scan were both refused while nothing was connected
C36_Witness ==
  /\ \E i \in 1..Len(requests) : requests[i].route = "start" /\ requests[i].status = 400
  /\ \E i \in 1..Len(requests) : requests[i].route = "scan" /\ requests[i].status = 400
  /\ calls = <<>>
  /\ procs = <<>>

\* The connections opened for user id u, oldest first
ConnectionsOf(u) == {c \in 1..Len(cleanups) : cleanups[c].userId = u}

Latest(u) == CHOOSE c \in ConnectionsOf(u) : \A d \in ConnectionsOf(u) : d <= c

C35_State ==
  /\ \A u \in DOMAIN connections :
       /\ connections[u] \in ConnectionsOf(u)
       /\ connections[u] = Latest(u)
       /\ ~cleanups[connections[u]].isCleanedUp
  /\ \A c \in 1..Len(cleanups) :
       ~cleanups[c].isCleanedUp =>
         /\ cleanups[c].userId \in DOMAIN connections
         /\ connections[cleanups[c].userId] = c

C35_Step ==
  /\ Len(requests') = Len(requests) + 1 =>
       LET r == requests'[Len(requests')]
       IN r.route = "connect" =>
            /\ r.userId \in DOMAIN connections => cleanups'[connections[r.userId]].isCleanedUp
            /\ connections'[r.userId] = Len(cleanups')
            /\ Len(cleanups') = Len(cleanups) + 1
  /\ \A c \in 1..Len(cleanups) :
       (cleanups[c].isCleanedUp /\ ~cleanups[c].closed /\ cleanups'[c].closed) =>
         UNCHANGED <<connections, activeSessions, sessions, timers, calls>>

\* C35: the registry holds for a user the connection opened last for that
\* user, and only while it is not cleaned up; every other connection of
\* the user is cleaned up; a connect cleans up the connection it replaces
\* and registers the new one; the close of a connection that was replaced
\* leaves the registry, the sessions, their timers and the calls alone.
C35_RegistryHoldsLatestConnection == []C35_State /\ [][C35_Step]_vars

\* u1 connected twice and started monitoring on the second connection; the
\* first connection was closed afterwards and the session is still live
C35_Witness ==
  /\ Len(cleanups) = 2
  /\ cleanups[1].userId = "u1" /\ cleanups[1].isCleanedUp /\ cleanups[1].closed
  /\ "u1" \in DOMAIN connections /\ connections["u1"] = 2
  /\ has("u1") /\ sessions[activeSessions["u1"]].callbacks = 2
  /\ sessions[activeSessions["u1"]].interval \in timers
  /\ \A c \in 1..Len(calls) : calls[c].pc = "returned"

TimersCleared(c) ==
  /\ cleanups[c].noiseInterval = "null"
  /\ cleanups[c].heartbeatInterval = "null"
  /\ cleanups[c].connectionTimeout = "null"

StopCalls == {c \in 1..Len(calls) : calls[c].op = "stop"}

C34_State ==
  /\ \A c \in 1..Len(cleanups) : cleanups[c].isCleanedUp => TimersCleared(c)
  /\ Cardinality(StopCalls) =
       Cardinality({i \in 1..Len(requests) : requests[i].route = "stop"})
       + Cardinality({c \in 1..Len(cleanups) : cleanups[c].isCleanedUp})

C34_Step ==
  \A c \in 1..Len(cleanups) :
    /\ cleanups[c].isCleanedUp =>
         /\ cleanups'[c].isCleanedUp
         /\ (cleanups'[c] # cleanups[c]) =>
              /\ cleanups'[c] = [cleanups[c] EXCEPT !.closed = TRUE]
              /\ UNCHANGED <<connections, activeSessions, sessions, timers, calls>>
    /\ (~cleanups[c].isCleanedUp /\ cleanups'[c].isCleanedUp) =>
         /\ Len(calls') = Len(calls) + 1
         /\ calls'[Len(calls')].op = "stop"
         /\ calls'[Len(calls')].u = cleanups[c].userId
         /\ ~has(cleanups[c].userId)'
         /\ cleanups[c].userId \in DOMAIN connections' => connections'[cleanups[c].userId] # c

\* C34: the cleanup of a connection runs once: the step that marks the
\* connection cleaned up clears its three timers, calls stopMonitoring for
\* its user once and takes the connection out of the registry; from then on
\* the timers stay cleared and a further trigger changes neither the
\* registry nor any session, timer or call, so that the stopMonitoring calls
\* ever made are one per stop request and one per cleaned-up connection.
C34_CleanupRunsOnce == []C34_State /\ [][C34_Step]_vars

\* The first connection was replaced and then closed; the second ended by
\* its timeout and was closed: each was triggered, the first one twice, and
\* stopMonitoring was called twice in all
C34_Witness ==
  /\ Len(cleanups) = 2
  /\ \A c \in 1..2 : cleanups[c].userId = "u1" /\ cleanups[c].isCleanedUp /\ cleanups[c].closed
  /\ cleanups[2].writableEnded
  /\ connections = <<>>
  /\ Cardinality(StopCalls) = 2

\* C33: when no startMonitoring or stopMonitoring call is in progress, every
\* user with a live monitoring session has a registered SSE connection, the
\* session's callbacks write to that connection, and every interval timer
\* that is set belongs to such a session.
C33_LiveSessionHasConnection ==
  (\A c \in 1..Len(calls) : calls[c].pc = "returned") =>
    /\ \A u \in DOMAIN activeSessions :
         /\ u \in DOMAIN connections
         /\ sessions[activeSessions[u]].callbacks = connections[u]
    /\ \A sid \in timers :
         /\ has(sessions[sid].userId)
         /\ activeSessions[sessions[sid].userId] = sid

\* C31: in an interval callback a fetched page is classified as unchanged
\* exactly when its fingerprint equals the last_hash of the target row the
\* callback loaded, whether or not its text holds a keyword; the result is
\* then changed = false with no matched keyword and no excerpt, the callback
\* neither calls the summarizer nor signals.create for the target, and with
\* the fingerprint stored it writes the "no change" line; a signal for a
\* target implies a fetch whose fingerprint differed from that last_hash.
C31_SignalOnlyOnNewFingerprint ==
  \A p \in 1..Len(procs) : \A j \in 1..Len(procs[p].targets) :
    LET pr == procs[p]
        target == pr.targets[j]
        tid == target.id
    IN pr.kind = "tick" =>
         /\ \A e \in LogIdx(pr, {"fetch"}, tid) :
              pr.log[e].m # "error" =>
                ((pr.log[e].h = target.last_hash) <=> (pr.log[e].m = "unchanged"))
         /\ (pr.i = j /\ pr.pc = "update" /\ pr.result.hash = target.last_hash) =>
              /\ pr.result.changed = FALSE
              /\ pr.result.matches = <<>>
              /\ pr.result.content = <<>>
         /\ Class(pr, tid) = "unchanged" =>
              /\ Count(pr, {"signal", "createSignal", "noise_updated"}, tid) = 0
              /\ (pr.i = j => pr.pc \notin {"ai", "create"})
              /\ (Finished(pr, j) /\ CallOk(pr, "updateLastCheck", tid)) =>
                   Count(pr, {"noise_nochange"}, tid) = 1
         /\ Count(pr, {"signal"}, tid) > 0 =>
              \E e \in LogIdx(pr, {"fetch"}, tid) :
                pr.log[e].m = "matched" /\ pr.log[e].h # target.last_hash

\* An interval callback fetched a page that holds the keyword and whose
\* fingerprint is the one stored by an earlier run, and reported no change
C31_Witness ==
  \E p \in 1..Len(procs) :
    /\ procs[p].kind = "tick"
    /\ procs[p].pc = "done"
    /\ Len(procs[p].targets) = 1
    /\ procs[p].targets[1].last_hash \in KeywordPageHashes
    /\ \E e \in LogIdx(procs[p], {"fetch"}, procs[p].targets[1].id) :
         /\ procs[p].log[e].h = procs[p].targets[1].last_hash
         /\ procs[p].log[e].m = "unchanged"
    /\ Count(procs[p], {"noise_nochange"}, procs[p].targets[1].id) = 1
    /\ Count(procs[p], {"signal"}, procs[p].targets[1].id) = 0

\* The owner whose call the step made or resumed ("": the step is none of a
\* call)
CallOwner ==
  IF Len(calls') > Len(calls) THEN calls'[Len(calls')].u
  ELSE IF \E c \in 1..Len(calls) : calls'[c] # calls[c]
    THEN calls[CHOOSE c \in 1..Len(calls) : calls'[c] # calls[c]].u
  ELSE ""

C32_Step ==
  \A u \in BothOwners :
    u # CallOwner =>
      /\ getStatus(u)' = getStatus(u)
      /\ \A s \in 1..Len(sessions) : sessions[s].userId = u => sessions'[s] = sessions[s]
      /\ \A s \in 1..Len(sessions') : sessions'[s].userId = u => s <= Len(sessions)
      /\ {t \in timers' : sessions'[t].userId = u} = {t \in timers : sessions[t].userId = u}

C32_State ==
  /\ \A p \in 1..Len(procs) :
       LET pr == procs[p]
       IN /\ pr.kind = "tick" => sessions[pr.sid].userId = pr.u
          /\ \A j \in 1..Len(pr.targets) : pr.targets[j].user_id = pr.u
          /\ \A e \in 1..Len(pr.log) : pr.log[e].t # 0 => store[pr.log[e].t].user_id = pr.u
  /\ \A r \in 1..Len(signalsTable) :
       signalsTable[r].user_id = store[signalsTable[r].target_id].user_id

\* C32: a step of a startMonitoring or stopMonitoring call changes the
\* registry entry, the sessions and the timers of the call's owner only, and
\* every other step (a timer firing, a forceScan, a step of a run) changes
\* those of nobody; a run works for the owner of the session or of the
\* forceScan call that began it: it loads that owner's targets only, and
\* every call and event it hands to its callbacks is about one of them.
C32_OwnersIndependent == []C32_State /\ [][C32_Step]_vars

\* Both owners have a live session; u1's was stopped and started again
\* beside u2's, which is still the first one, and a run of one owner's
\* target gave a signal
C32_Witness ==
  /\ has("u1") /\ has("u2")
  /\ activeSessions["u2"] = 1
  /\ activeSessions["u1"] = 3
  /\ sessions[1].isRunning /\ 1 \in timers
  /\ ~sessions[2].isRunning
  /\ \E p \in 1..Len(procs) : procs[p].pc = "done" /\ Count(procs[p], {"signal"}, 2) = 1

\* From here on nothing fails: no run has a failed fetch, a failed storage
\* call or an error line in its trace
NothingFails ==
  \A p \in 1..Len(procs) : \A e \in 1..Len(procs[p].log) :
    /\ procs[p].log[e].m \notin {"failed", "error"}
    /\ procs[p].log[e].k \notin {"noise_error", "noise_system_error"}

SignalPersisted ==
  /\ \E r \in 1..Len(signalsTable) :
       signalsTable[r].target_id = 1 /\ signalsTable[r].matched_keywords = <<KW_AI>>
  /\ \E p \in 1..Len(procs) : Count(procs[p], {"signal"}, 1) = 1

\* C37: with the session running on a page that holds the keyword and stays
\* as it is, if from some time on the fetches and the storage calls succeed
\* then a signal row for the target is eventually stored and the signal
\* event handed to onSignal, whatever failed before.
C37_MatchEventuallySignalled == (<>[]NothingFails) => <>SignalPersisted

\* C38: whatever the order in which the steps of concurrent POST
\* /api/targets requests are taken, an owner never has more than
\* MAX_TARGETS_PER_USER rows.
C38_TargetsPerUserBounded ==
  \A u \in BothOwners : targetCount(u) <= MAX_TARGETS_PER_USER

\* C39: the sanitized excerpt that analyzeSignal puts between the lines
\* ---BEGIN CONTENT--- and ---END CONTENT--- of the prompt holds neither of
\* the two lines itself.
C39_ExcerptHoldsNoDelimiter ==
  fname \in {"analyzeSignal:await", "analyzeSignal:return"} =>
    /\ ~includes(ret.sanitizedContent, S_beginContent)
    /\ ~includes(ret.sanitizedContent, S_endContent)

\* C40: the excerpts built are finitely many: for every text and every list
\* of matched keywords, the empty keyword and keywords whose occurrences
\* touch or overlap included, the search for a keyword gives one excerpt per
\* occurrence found, each found at or after the end of the one before, and
\* stops with the third, so that there are at most 3 excerpts per keyword.
C40_ExcerptSearchEnds ==
  (fname = "checkForSignal:return" /\ ret.result.matches # <<>>) =>
    /\ Len(ret.excerpts) <= MAX_OCCURRENCES * Len(ret.result.matches)
    /\ Len(ret.excerpts) = Len(AllFound(ret.s.text, ret.result.matches))
    /\ \A m \in 1..Len(ret.result.matches) :
         LET found == FoundAt(ret.s.text, ret.result.matches[m], 0, MAX_OCCURRENCES)
         IN /\ Len(found) <= MAX_OCCURRENCES
            /\ \A n \in 1..(Len(found) - 1) :
                 found[n + 1].at >= found[n].at + Len(ret.result.matches[m])

\* Nine times the letter a, searched for "a" and for the empty keyword:
\* three excerpts for the occurrences at 0, 1 and 2, three for the empty
\* keyword found at 0 each time
C40_Witness ==
  /\ fname = "checkForSignal:return"
  /\ ret.s.text = Rep("a", 9)
  /\ ret.result.matches = <<<<"a">>, <<>>>>
  /\ Len(ret.excerpts) = 2 * MAX_OCCURRENCES
  /\ \A n \in 1..Len(ret.excerpts) : ret.excerpts[n] = Rep("a", 9)

====
